---------------------------- MODULE Spec2Model ----------------------------
(***************************************************************************)
(* A model of the IR_Pricer library: the discount curve                    *)
(* (pricer/curves/discount_curve.py), the coupons                          *)
(* (pricer/instruments/fixed_coupon.py, floating_coupon.py), the legs      *)
(* (leg.py, fixed_leg.py, floating_leg.py) and the swap (swap.py).         *)
(*                                                                         *)
(* Numbers.  Python floats are modelled by exact rationals <<n, d>> with   *)
(* d > 0 in lowest terms.  Natural logarithms are kept in units of ln 2:   *)
(* the pillar discount factors of the model are powers of two, so np.log   *)
(* of a pillar is an integer number of units, and np.exp of r units is     *)
(* 2^r, kept exactly (a rational when r is an integer, the symbol          *)
(* [pow2 |-> r] otherwise).                                                *)
(*                                                                         *)
(* Dates.  A date is its serial number, serial 1 being Monday 2024-01-01.  *)
(***************************************************************************)
EXTENDS Integers, Sequences, FiniteSets, TLC

VARIABLES
    curve,      \* the DiscountCurve object, or NoCurve before construction
    curveIn,    \* the DiscountCurveModel given to from_model
    curveErr,   \* outcome of the last DiscountCurve.from_model call
    query,      \* the last discount_factor call: [date, res]
    prevQuery,  \* the discount_factor call before it
    evalDate,   \* ql.Settings.instance().evaluationDate
    euribor,    \* the ql.Euribor3M index: its fixings and its curve
    coupon,     \* the coupon object built last, or the error of that call
    couponIn,   \* the arguments of that constructor call
    amountRes,  \* the result of the last amount() call on the coupon
    leg,        \* the FixedLeg or FloatingLeg object, or the error of that call
    legIn,      \* the arguments of that constructor call
    schedRes,   \* the result of the last generate_schedule call on the leg
    buildLog,   \* one entry per build_leg call on the leg, oldest first
    swap,       \* the Swap object, or the error of its construction
    swapIn,     \* the arguments of that construction
    priceIn,    \* the instrument handed to the last DiscountingPricer.price call
    priceRes    \* the result of that call

-----------------------------------------------------------------------------
(* Exact rational arithmetic standing for Python float arithmetic.         *)

Abs(x) == IF x < 0 THEN -x ELSE x

RECURSIVE GCD(_, _)
GCD(a, b) == IF b = 0 THEN a ELSE GCD(b, a % b)

Rat(n, d) ==
    LET g == GCD(Abs(n), Abs(d))
        s == IF d < 0 THEN -1 ELSE 1
    IN  <<(s * n) \div g, (s * d) \div g>>

RInt(n) == <<n, 1>>
RNeg(a) == <<-a[1], a[2]>>
RAdd(a, b) == Rat(a[1] * b[2] + b[1] * a[2], a[2] * b[2])
RSub(a, b) == RAdd(a, RNeg(b))
\* a * b for a = <<n1, d1>>, b = <<n2, d2>> in lowest terms, g1 = gcd(n1, d2)
\* and g2 = gcd(n2, d1) divided out before the products are formed
RMulBy(a, b, g1, g2) == <<(a[1] \div g1) * (b[1] \div g2), (a[2] \div g2) * (b[2] \div g1)>>
RMul(a, b) == RMulBy(a, b, GCD(Abs(a[1]), b[2]), GCD(Abs(b[1]), a[2]))
RInv(a) == IF a[1] < 0 THEN <<-a[2], -a[1]>> ELSE <<a[2], a[1]>>
RDiv(a, b) == RMul(a, RInv(b))
RLt(a, b) == a[1] * b[2] < b[1] * a[2]
RLe(a, b) == a[1] * b[2] <= b[1] * a[2]
RZero == RInt(0)
ROne == RInt(1)

RECURSIVE Pow2(_)
Pow2(k) == IF k = 0 THEN 1 ELSE 2 * Pow2(k - 1)

-----------------------------------------------------------------------------
(* Dates: the QuantLib Date arithmetic the library relies on.              *)

Years == 2024..2027

IsLeap(y) == (y % 4 = 0 /\ y % 100 # 0) \/ y % 400 = 0

DaysInYear(y) == IF IsLeap(y) THEN 366 ELSE 365

DaysInMonth(y, m) ==
    IF m = 2 THEN (IF IsLeap(y) THEN 29 ELSE 28)
    ELSE IF m \in {4, 6, 9, 11} THEN 30 ELSE 31

RECURSIVE DaysBeforeYear(_)
DaysBeforeYear(y) ==
    IF y <= 2024 THEN 0 ELSE DaysBeforeYear(y - 1) + DaysInYear(y - 1)

RECURSIVE DaysBeforeMonth(_, _)
DaysBeforeMonth(y, m) ==
    IF m <= 1 THEN 0 ELSE DaysBeforeMonth(y, m - 1) + DaysInMonth(y, m - 1)

\* ql.Date(day, month, year)
MkDate(y, m, d) == DaysBeforeYear(y) + DaysBeforeMonth(y, m) + d

\* the year of a serial number
SerialYear(s) ==
    CHOOSE y \in Years : DaysBeforeYear(y) < s /\ s <= DaysBeforeYear(y) + DaysInYear(y)

\* the month holding day r of year y
SerialMonth(y, r) ==
    CHOOSE m \in 1..12 :
        DaysBeforeMonth(y, m) < r /\ r <= DaysBeforeMonth(y, m) + DaysInMonth(y, m)

MonthParts(y, r, m) == <<y, m, r - DaysBeforeMonth(y, m)>>

YearParts(s, y, before) == MonthParts(y, s - before, SerialMonth(y, s - before))

SerialParts(s, y) == YearParts(s, y, DaysBeforeYear(y))

MaxSerial == DaysBeforeYear(2028)

\* serial -> <<year, month, day>>
DateParts == [s \in 1..MaxSerial |-> SerialParts(s, SerialYear(s))]

YearOf(s) == DateParts[s][1]

MonthOf(s) == DateParts[s][2]

DayOf(s) == DateParts[s][3]

\* 0 = Monday ... 5 = Saturday, 6 = Sunday
Weekday(s) == (s - 1) % 7

IsWeekend(s) == Weekday(s) >= 5

MinOf(a, b) == IF a < b THEN a ELSE b

\* month index k = 12 * year + (month - 1), day d cut to the month's length
MonthIndexDate(k, d) == MkDate(k \div 12, (k % 12) + 1, MinOf(d, DaysInMonth(k \div 12, (k % 12) + 1)))

PartsAddMonths(p, n) == MonthIndexDate(p[1] * 12 + (p[2] - 1) + n, p[3])

\* date + n months, the day of month cut to the target month's length
AddMonths(s, n) == PartsAddMonths(DateParts[s], n)

-----------------------------------------------------------------------------
(* Calendars, business-day conventions, day counts: utils/mappings.py.     *)

CALENDAR_MAP == {"TARGET", "UnitedStates", "NullCalendar"}

DAY_COUNT_MAP == {"Actual360", "Thirty360", "Thirty360E", "Actual365Fixed"}

BUSINESS_CONVENTION_MAP == {"Following", "ModifiedFollowing", "Preceding", "Unadjusted"}

\* frequency name -> length of the ql.Period in months
PAYMENT_FREQUENCY_MAP == [f \in {"1M", "3M", "6M", "12M"} |->
    CASE f = "1M" -> 1 [] f = "3M" -> 3 [] f = "6M" -> 6 [] f = "12M" -> 12]

\* Good Friday and Easter Monday of the modelled years, <<year, month, day>>
EasterHolidays ==
    { <<2024, 3, 29>>, <<2024, 4, 1>>, <<2025, 4, 18>>, <<2025, 4, 21>>,
      <<2026, 4, 3>>, <<2026, 4, 6>>, <<2027, 3, 26>>, <<2027, 3, 29>> }

\* ql.TARGET(): weekends, 1 January, Good Friday, Easter Monday, 1 May,
\* 25 and 26 December
TargetHolidayParts(s, p) ==
    \/ IsWeekend(s)
    \/ (p[2] = 1 /\ p[3] = 1)
    \/ p \in EasterHolidays
    \/ (p[2] = 5 /\ p[3] = 1)
    \/ (p[2] = 12 /\ p[3] \in {25, 26})

TargetHoliday(s) == TargetHolidayParts(s, DateParts[s])

\* ql.NullCalendar(): every day is a business day
IsBusinessDay(cal, s) ==
    CASE cal = "TARGET" -> ~TargetHoliday(s)
      [] cal = "NullCalendar" -> TRUE

RECURSIVE NextBusinessDay(_, _)
NextBusinessDay(cal, s) ==
    IF IsBusinessDay(cal, s) THEN s ELSE NextBusinessDay(cal, s + 1)

RECURSIVE PrevBusinessDay(_, _)
PrevBusinessDay(cal, s) ==
    IF IsBusinessDay(cal, s) THEN s ELSE PrevBusinessDay(cal, s - 1)

\* the convention applied to s, given the business days f on or after s and
\* b on or before s
AdjustTo(s, conv, f, b) ==
    CASE conv = "Unadjusted" -> s
      [] conv = "Following" -> f
      [] conv = "ModifiedFollowing" -> IF MonthOf(f) # MonthOf(s) THEN b ELSE f
      [] conv = "Preceding" -> b

\* Calendar.adjust(date, convention)
Adjust(cal, s, conv) == AdjustTo(s, conv, NextBusinessDay(cal, s), PrevBusinessDay(cal, s))

\* Calendar.advance(date, ql.Period(n, ql.Days), convention): n business
\* days forward or backward; the convention is used only when n = 0.
RECURSIVE AdvanceDays(_, _, _, _)
AdvanceDays(cal, s, n, conv) ==
    IF n = 0 THEN Adjust(cal, s, conv)
    ELSE IF n > 0 THEN AdvanceDays(cal, NextBusinessDay(cal, s + 1), n - 1, "Unadjusted")
    ELSE AdvanceDays(cal, PrevBusinessDay(cal, s - 1), n + 1, "Unadjusted")

\* Calendar.advance(date, ql.Period(n, ql.Months), convention)
AdvanceMonths(cal, s, n, conv) == Adjust(cal, AddMonths(s, n), conv)

\* DayCounter.dayCount for the 30/360 conventions
Thirty360Parts(p1, p2, european) ==
    360 * (p2[1] - p1[1]) + 30 * (p2[2] - p1[2])
      + ((IF p2[3] = 31 /\ (european \/ p1[3] >= 30) THEN 30 ELSE p2[3])
         - (IF p1[3] = 31 THEN 30 ELSE p1[3]))

Thirty360Days(s, e, european) == Thirty360Parts(DateParts[s], DateParts[e], european)

\* DayCounter.yearFraction(start, end)
DayCountFraction(dc, s, e) ==
    CASE dc = "Actual360" -> Rat(e - s, 360)
      [] dc = "Actual365Fixed" -> Rat(e - s, 365)
      [] dc = "Thirty360" -> Rat(Thirty360Days(s, e, FALSE), 360)
      [] dc = "Thirty360E" -> Rat(Thirty360Days(s, e, TRUE), 360)

\* utils/dates.py year_fraction: the result, or an error for an unknown name
year_fraction(s, e, convention) ==
    IF convention \notin DAY_COUNT_MAP
    THEN [err |-> "ValueError"]
    ELSE [err |-> "", val |-> DayCountFraction(convention, s, e)]


-----------------------------------------------------------------------------
(* Numbers returned by discount_factor: a rational, or 2^r for a rational  *)
(* r that is not an integer.                                               *)

NumRat(q) == [k |-> "rat", v |-> q]

\* np.log of a power of two, in units of ln 2
Log2Exact(q) ==
    CHOOSE e \in -8..8 :
        IF e >= 0 THEN q = <<Pow2(e), 1>> ELSE q = <<1, Pow2(-e)>>

NpLog(q) == RInt(Log2Exact(q))

\* np.exp of r units of ln 2
NpExp(r) ==
    IF r[2] = 1 /\ r[1] \in -8..8
    THEN NumRat(IF r[1] >= 0 THEN <<Pow2(r[1]), 1>> ELSE <<1, Pow2(-r[1])>>)
    ELSE [k |-> "pow2", v |-> r]

NumLog2(a) == IF a.k = "pow2" THEN a.v ELSE NpLog(a.v)

\* a <= b and a = b on returned numbers
NumLe(a, b) ==
    IF a.k = "rat" /\ b.k = "rat" THEN RLe(a.v, b.v) ELSE RLe(NumLog2(a), NumLog2(b))

NumEq(a, b) == a = b

-----------------------------------------------------------------------------
(* scipy.interpolate.interp1d as DiscountCurve uses it.                    *)

\* np.searchsorted(x, t): how many knots lie strictly below t
SearchSorted(x, t) == Cardinality({i \in 1..Len(x) : RLt(x[i], t)})

Clip(i, lo, hi) == IF i < lo THEN lo ELSE IF i > hi THEN hi ELSE i

\* the segment through (x_lo, y_lo) and (x_hi, y_hi), evaluated at t
SegmentValue(xlo, ylo, xhi, yhi, t) ==
    RAdd(RMul(RDiv(RSub(yhi, ylo), RSub(xhi, xlo)), RSub(t, xlo)), ylo)

SegmentAt(x, y, hi, t) == SegmentValue(x[hi - 1], y[hi - 1], x[hi], y[hi], t)

\* a linear interpolation whose slope has the wrong sign
LinearCallMirrored(x, y, t) ==
    SegmentAt(x, [i \in 1..Len(y) |-> RNeg(y[i])], Clip(SearchSorted(x, t), 1, Len(x) - 1) + 1, t)

\* kind = "linear": the segment [x_lo, x_hi] around t, the boundary segment
\* when t lies outside the knots
LinearCall(x, y, t) == SegmentAt(x, y, Clip(SearchSorted(x, t), 1, Len(x) - 1) + 1, t)

RECURSIVE RSum(_, _)
RSum(f, n) == IF n = 0 THEN RZero ELSE RAdd(f[n], RSum(f, n - 1))

RECURSIVE RProd(_, _)
RProd(f, n) == IF n = 0 THEN ROne ELSE RMul(f[n], RProd(f, n - 1))

\* kind = "cubic" on four knots: the not-a-knot spline is the one cubic
\* through the four points
CubicCall(x, y, t) ==
    LET basis(i) ==
            RProd([j \in 1..4 |->
                      IF j = i THEN ROne
                      ELSE RDiv(RSub(t, x[j]), RSub(x[i], x[j]))], 4)
    IN  RSum([i \in 1..4 |-> RMul(y[i], basis(i))], 4)

\* interp1d(x, y, kind=kind, fill_value=fill_value): bounds_error is left at
\* its default, so the object raises on a value outside the knots unless
\* fill_value is "extrapolate"
\* the same object with bounds_error = False: fill values outside the knots
Interp1dNaNFill(x, y, kind, fill_value) ==
    IF kind = "cubic" /\ Len(x) < 4
    THEN [err |-> "ValueError"]
    ELSE [err |-> "", x |-> x, y |-> y, kind |-> kind,
          extrapolate |-> (fill_value = "extrapolate"), bounds_error |-> FALSE]

interp1d(x, y, kind, fill_value) ==
    IF kind = "cubic" /\ Len(x) < 4
    THEN [err |-> "ValueError"]
    ELSE [err |-> "", x |-> x, y |-> y, kind |-> kind,
          extrapolate |-> (fill_value = "extrapolate"),
          bounds_error |-> (fill_value # "extrapolate")]

\* interpolator(t)
InterpCall(f, t) ==
    LET outside == RLt(t, f.x[1]) \/ RLt(f.x[Len(f.x)], t)
    IN  IF outside /\ f.bounds_error THEN [err |-> "ValueError"]
        ELSE IF outside /\ ~f.extrapolate THEN [err |-> "", nan |-> TRUE]
        ELSE [err |-> "", nan |-> FALSE,
              val |-> IF f.kind = "linear" THEN LinearCall(f.x, f.y, t)
                      ELSE CubicCall(f.x, f.y, t)]


-----------------------------------------------------------------------------
(* pricer/curves/discount_curve.py                                         *)

NoCurve == [err |-> "none"]

NaN == [k |-> "nan", v |-> RZero]

\* the transform of the pillar values into the interpolation space
ZeroValue(df, t) == IF RLt(RZero, t) THEN RDiv(RNeg(NpLog(df)), t) ELSE RZero

SpaceValues(interpolation_on, raw_dfs, times) ==
    CASE interpolation_on = "discount" -> raw_dfs
      [] interpolation_on = "log_discount" ->
            [i \in 1..Len(raw_dfs) |-> NpLog(raw_dfs[i])]
      [] interpolation_on = "zero" ->
            [i \in 1..Len(raw_dfs) |-> ZeroValue(raw_dfs[i], times[i])]

\* DiscountCurve.__init__
DiscountCurveInit(valuation_date, pillars, interpolation, interpolation_on, allow_extrapolation, day_count) ==
    LET dates == [i \in 1..Len(pillars) |-> pillars[i][1]]
        raw_dfs == [i \in 1..Len(pillars) |-> pillars[i][2]]
    IN  IF day_count \notin DAY_COUNT_MAP THEN [err |-> "ValueError"]
        ELSE IF interpolation_on \notin {"discount", "log_discount", "zero"}
        THEN [err |-> "ValueError"]
        ELSE
        LET times == [i \in 1..Len(dates) |->
                         year_fraction(valuation_date, dates[i], day_count).val]
            values == SpaceValues(interpolation_on, raw_dfs, times)
            fill_val == IF allow_extrapolation THEN "extrapolate" ELSE "nan"
            interpolator == interp1d(times, values, interpolation, fill_val)
        IN  IF interpolator.err # "" THEN [err |-> interpolator.err]
            ELSE [err |-> "",
                  valuation_date |-> valuation_date,
                  day_count |-> day_count,
                  interpolation_on |-> interpolation_on,
                  allow_extrapolation |-> allow_extrapolation,
                  dates |-> dates,
                  raw_dfs |-> raw_dfs,
                  times |-> times,
                  interpolator |-> interpolator]

\* the inverse transform applied to the interpolated value
InverseSpace(interpolation_on, val, t) ==
    CASE interpolation_on = "discount" -> NumRat(val)
      [] interpolation_on = "log_discount" -> NpExp(val)
      [] interpolation_on = "zero" -> NpExp(RMul(RNeg(val), t))

\* DiscountCurve.discount_factor
discount_factor(self, target_date) ==
    LET t == year_fraction(self.valuation_date, target_date, self.day_count).val
        r == InterpCall(self.interpolator, t)
    IN  IF r.err # "" THEN [err |-> r.err]
        ELSE IF r.nan THEN [err |-> "", val |-> NaN]
        ELSE [err |-> "", val |-> InverseSpace(self.interpolation_on, r.val, t)]

\* ql.Period(tenor) for the tenor strings of the model
TenorPeriod == [s \in {"0D", "1M", "3M"} |->
    CASE s = "0D" -> [n |-> 0, unit |-> "Days"]
      [] s = "1M" -> [n |-> 1, unit |-> "Months"]
      [] s = "3M" -> [n |-> 3, unit |-> "Months"]]

\* utils/dates.py advance_date
advance_date(start, tenor, calendar, convention) ==
    IF calendar \notin CALENDAR_MAP \/ convention \notin BUSINESS_CONVENTION_MAP
    THEN [err |-> "ValueError"]
    ELSE LET p == TenorPeriod[tenor]
         IN  [err |-> "",
              val |-> IF p.unit = "Days"
                      THEN AdvanceDays(calendar, start, p.n, convention)
                      ELSE AdvanceMonths(calendar, start, p.n, convention)]

\* the pydantic field types of DiscountCurveModel
DiscountCurveModelValid(m) ==
    /\ m.interp_method \in {"linear", "cubic"}
    /\ m.interpolation_on \in {"discount", "log_discount", "zero"}

\* a loop that accepts discount factors up to 2
ConvertPillarWide(model, p) ==
    LET py == IF p[1].ty = "str"
              THEN advance_date(model.value_date, p[1].s, model.calendar,
                                model.business_day_convention)
              ELSE [err |-> "", val |-> p[1].d]
    IN  IF py.err # "" THEN [err |-> py.err]
        ELSE IF RLe(p[2], RZero) \/ RLt(Rat(2, 1), p[2]) THEN [err |-> "ValueError"]
        ELSE [err |-> "", val |-> <<py.val, p[2]>>]

\* the loop of from_model over one pillar (t, df): the resolved pillar or
\* the error it raises
ConvertPillar(model, p) ==
    LET py == IF p[1].ty = "str"
              THEN advance_date(model.value_date, p[1].s, model.calendar,
                                model.business_day_convention)
              ELSE [err |-> "", val |-> p[1].d]
    IN  IF py.err # "" THEN [err |-> py.err]
        ELSE IF RLe(p[2], RZero) \/ RLt(Rat(3, 2), p[2]) THEN [err |-> "ValueError"]
        ELSE [err |-> "", val |-> <<py.val, p[2]>>]

\* DiscountCurve.from_model
from_model(model) ==
    LET conv == [i \in 1..Len(model.pillars) |-> ConvertPillar(model, model.pillars[i])]
    IN  IF \E i \in 1..Len(conv) : conv[i].err # "" THEN [err |-> "ValueError"]
        ELSE
        LET converted_pillars == [i \in 1..Len(conv) |-> conv[i].val]
        IN  IF \E i \in 1..(Len(converted_pillars) - 1) :
                   converted_pillars[i + 1][1] <= converted_pillars[i][1]
            THEN [err |-> "ValueError"]
            ELSE DiscountCurveInit(model.value_date, converted_pillars,
                                   model.interp_method, model.interpolation_on,
                                   model.allow_extrapolation, model.day_count)


-----------------------------------------------------------------------------
(* The QuantLib index handed to a FloatingCoupon: ql.Euribor3M(handle).    *)
(* index = [fixings |-> the recorded <<date, rate>> pairs,                 *)
(*          curve |-> the reference date of the forwarding curve, or       *)
(*                    NoHandle for an index built without a curve].        *)
(* The forwarding curve is flat at 3% simple, Actual/360 from its          *)
(* reference date: P(d) = 12000 / (12000 + (d - reference)).               *)

NoHandle == 0

HasFixing(index, d) == \E f \in index.fixings : f[1] = d

PastFixing(index, d) == (CHOOSE f \in index.fixings : f[1] = d)[2]

\* YieldTermStructure.discount(d)
Discount(ref, d) == Rat(12000, 12000 + (d - ref))

\* InterestRate.impliedRate(compound, dc, Simple, ..., t)
ImpliedRate(compound, t) ==
    IF compound = ROne THEN [err |-> "", val |-> RZero]
    ELSE IF ~RLt(RZero, t) THEN [err |-> "RuntimeError"]
    ELSE [err |-> "", val |-> RDiv(RSub(compound, ROne), t)]

\* YieldTermStructureHandle.forwardRate(d1, d2, dc, ql.Simple): fails on an
\* empty handle, for d1 later than d2 and for a date before the reference
\* date; for d1 = d2 it is the instantaneous simple rate at d1
forwardRate(ref, d1, d2, dc) ==
    IF ref = NoHandle \/ d2 < d1 \/ d1 < ref THEN [err |-> "RuntimeError"]
    ELSE IF d1 = d2 THEN [err |-> "", val |-> Rat(360, 12000 + (d1 - ref))]
    ELSE ImpliedRate(RDiv(Discount(ref, d1), Discount(ref, d2)), DayCountFraction(dc, d1, d2))

\* Calendar.isEndOfMonth(d)
IsEndOfMonth(cal, s) == MonthOf(s) # MonthOf(NextBusinessDay(cal, s + 1))

LastDayOfMonth(p) == MkDate(p[1], p[2], DaysInMonth(p[1], p[2]))

\* Calendar.endOfMonth(d): the last business day of d's month
EndOfMonth(cal, s) == PrevBusinessDay(cal, LastDayOfMonth(DateParts[s]))

\* Calendar.advance(d, n months, convention, endOfMonth = True)
AdvanceMonthsEOM(cal, s, n, conv) ==
    IF IsEndOfMonth(cal, s) THEN EndOfMonth(cal, AddMonths(s, n))
    ELSE Adjust(cal, AddMonths(s, n), conv)

\* IborIndex.forecastFixing over [d1, d2], d1 the value date of the fixing
\* and d2 its maturity
ForecastOver(ref, d1, d2) ==
    IF ref = NoHandle \/ d1 < ref THEN [err |-> "RuntimeError"]
    ELSE [err |-> "",
          val |-> RDiv(RSub(RDiv(Discount(ref, d1), Discount(ref, d2)), ROne),
                       DayCountFraction("Actual360", d1, d2))]

ForecastFrom(ref, d1) == ForecastOver(ref, d1, AdvanceMonthsEOM("TARGET", d1, 3, "ModifiedFollowing"))

\* IborIndex.forecastFixing(fixingDate): two fixing days, three months
forecastFixing(index, d) == ForecastFrom(index.curve, AdvanceDays("TARGET", d, 2, "Following"))

\* InterestRateIndex.fixing(fixingDate) under evaluation date today: a date
\* that is no TARGET business day is refused; a date after today is
\* forecast; a date before today must have a recorded fixing; for today
\* the recorded fixing is returned if there is one, the forecast otherwise
IndexFixing(index, d, today) ==
    IF ~IsBusinessDay("TARGET", d) THEN [err |-> "RuntimeError"]
    ELSE IF d > today THEN forecastFixing(index, d) @@ [source |-> "forecast"]
    ELSE IF HasFixing(index, d)
    THEN [err |-> "", val |-> PastFixing(index, d), source |-> "fixing"]
    ELSE IF d < today THEN [err |-> "RuntimeError"]
    ELSE forecastFixing(index, d) @@ [source |-> "forecast"]

-----------------------------------------------------------------------------
(* pricer/instruments/coupon.py, fixed_coupon.py, floating_coupon.py       *)

NoCoupon == [err |-> "none"]

NoIndex == [fixings |-> {}, curve |-> NoHandle]

NoCall == [kind |-> "none"]

NoAmount == [err |-> "none"]

NoLeg == [err |-> "none"]

NoSchedule == [err |-> "none"]

NoSwap == [err |-> "none"]

NoPrice == [err |-> "none"]


\* a check_dates_consistency that lets a coupon end on its start date
DatesNotStrict(m) ==
    /\ RLt(RZero, m.notional)
    /\ RLe(RZero, m.fixed_rate)
    /\ RLe(m.fixed_rate, ROne)
    /\ m.calendar \in {"TARGET", "UnitedStates", "NullCalendar"}
    /\ m.day_count \in {"Actual360", "Thirty360", "Actual365Fixed"}
    /\ m.end_date >= m.start_date
    /\ m.payment_date >= m.end_date

\* FixedCouponModel: check_fields and check_dates_consistency
FixedCouponModelValid(m) ==
    /\ RLt(RZero, m.notional)
    /\ RLe(RZero, m.fixed_rate)
    /\ RLe(m.fixed_rate, ROne)
    /\ m.calendar \in {"TARGET", "UnitedStates", "NullCalendar"}
    /\ m.day_count \in {"Actual360", "Thirty360", "Actual365Fixed"}
    /\ m.end_date > m.start_date
    /\ m.payment_date >= m.end_date

\* FixedCoupon.__init__
FixedCoupon(model) ==
    IF model.calendar \notin {"TARGET", "UnitedStates", "NullCalendar"}
    THEN [err |-> "ValueError"]
    ELSE IF model.day_count \notin {"Actual360", "Thirty360", "Actual365Fixed"}
    THEN [err |-> "ValueError"]
    ELSE [err |-> "", kind |-> "fixed",
          start_date |-> model.start_date, end_date |-> model.end_date,
          payment_date |-> model.payment_date, notional |-> model.notional,
          calendar |-> model.calendar, fixed_rate |-> model.fixed_rate,
          day_count |-> model.day_count]

\* FixedCoupon.amount
FixedCoupon_amount(self) ==
    RMul(RMul(self.notional, self.fixed_rate),
         DayCountFraction(self.day_count, self.start_date, self.end_date))

\* FloatingCouponModel: validate_before and validate_after
FloatingCouponModelValid(m) ==
    /\ RLt(RZero, m.notional)
    /\ m.calendar \in CALENDAR_MAP
    /\ m.day_count \in DAY_COUNT_MAP
    /\ m.fixing_lag >= 0
    /\ m.convention \in BUSINESS_CONVENTION_MAP
    /\ m.end_date > m.start_date
    /\ m.payment_date >= m.end_date

\* the except branch of _determine_rate: the forward rate from ql_start,
\* the fixing date moved up to the evaluation date, to the accrual end
ForwardFrom(index, ql_start, end_date, day_count) ==
    forwardRate(index.curve, ql_start, end_date, day_count)
        @@ [source |-> "forward", fwd_start |-> ql_start]

\* a resolution that projects the forward rate whatever the try branch found
AlwaysForward(fix, index, fixing_date, end_date, day_count, eval_date) ==
    ForwardFrom(index, IF fixing_date < eval_date THEN eval_date ELSE fixing_date,
                end_date, day_count)

\* an except branch that always projects from the evaluation date
FromEvaluationDate(fix, index, fixing_date, end_date, day_count, eval_date) ==
    IF fix.err = "" THEN fix @@ [fwd_start |-> 0]
    ELSE ForwardFrom(index, eval_date, end_date, day_count)

\* the rate found by the try branch, or the except branch run in its place
OrForward(fix, index, fixing_date, end_date, day_count, eval_date) ==
    IF fix.err = "" THEN fix @@ [fwd_start |-> 0]
    ELSE ForwardFrom(index, IF fixing_date < eval_date THEN eval_date ELSE fixing_date,
                     end_date, day_count)

\* FloatingCoupon._determine_rate
determine_rate(index, fixing_date, end_date, day_count, eval_date) ==
    OrForward(IndexFixing(index, fixing_date, eval_date), index, fixing_date, end_date, day_count, eval_date)

\* the coupon object once the fixing date and the rate are known
FloatingCouponOf(model, fixing_date, rate) ==
    IF rate.err # "" THEN [err |-> rate.err]
    ELSE [err |-> "", kind |-> "floating",
          start_date |-> model.start_date, end_date |-> model.end_date,
          payment_date |-> model.payment_date, notional |-> model.notional,
          calendar |-> model.calendar, spread |-> model.spread,
          day_count |-> model.day_count, fixing_lag |-> model.fixing_lag,
          index_name |-> model.index_name, fixing_date |-> fixing_date,
          index_rate |-> rate.val, rate_source |-> rate.source,
          fwd_start |-> rate.fwd_start]

FloatingCouponAt(model, index, eval_date, fixing_date) ==
    FloatingCouponOf(model, fixing_date,
        determine_rate(index, fixing_date, model.end_date, model.day_count, eval_date))

\* FloatingCoupon.__init__, under the evaluation date of the moment
FloatingCoupon(model, index, eval_date) ==
    FloatingCouponAt(model, index, eval_date,
        AdvanceDays(model.calendar, model.start_date, -model.fixing_lag, model.convention))

\* the rate _determine_rate would find on the index and under the
\* evaluation date of the moment of the call, the stored rate if it fails
RateNow(self, rate) == IF rate.err = "" THEN rate.val ELSE self.index_rate

\* an amount that resolves the rate again at every call
AmountReResolved(self) ==
    RMul(RMul(self.notional,
              RAdd(RateNow(self, determine_rate(euribor, self.fixing_date, self.end_date,
                                                self.day_count, evalDate)),
                   self.spread)),
         DayCountFraction(self.day_count, self.start_date, self.end_date))

\* FloatingCoupon.amount
FloatingCoupon_amount(self) ==
    RMul(RMul(self.notional, RAdd(self.index_rate, self.spread)),
         DayCountFraction(self.day_count, self.start_date, self.end_date))

\* an amount accrued up to the payment date instead of the accrual end
AmountToPaymentDate(self) ==
    RMul(RMul(self.notional,
              IF self.kind = "fixed" THEN self.fixed_rate
              ELSE RAdd(self.index_rate, self.spread)),
         DayCountFraction(self.day_count, self.start_date, self.payment_date))

\* coupon.amount()
amount(self) ==
    IF self.kind = "fixed" THEN FixedCoupon_amount(self) ELSE FloatingCoupon_amount(self)

-----------------------------------------------------------------------------
(* Inputs of the curve specification.                                      *)

\* pillar discount factors are 2^0 .. 2^-MaxExp
MaxExp == 3

\* the pillar lists drawn with every choice of dates and values have at
\* most MaxPillars pillars
MaxPillars == 2

ValueDate == MkDate(2025, 1, 31)

\* 30 days before the value date, the value date, 30 and 90 days after it
PillarDates == {MkDate(2025, 1, 1), ValueDate, MkDate(2025, 3, 2), MkDate(2025, 5, 1)}

\* a date before every pillar, the pillar dates, a date between the last
\* two pillars and a date after every pillar
TargetDates ==
    PillarDates \cup {MkDate(2024, 12, 2), MkDate(2025, 4, 16), MkDate(2025, 6, 30)}

DiscountFactors == {<<1, Pow2(e)>> : e \in 0..MaxExp}

DateKey(d) == [ty |-> "date", d |-> d, s |-> ""]

TenorKey(s) == [ty |-> "str", d |-> 0, s |-> s]

\* pillar lists with strictly increasing dates
IncreasingLists(n) ==
    { [i \in 1..n |-> <<DateKey(l[i][1]), l[i][2]>>] :
        l \in { q \in [1..n -> PillarDates \X DiscountFactors] :
                  \A i \in 1..(n - 1) : q[i][1] < q[i + 1][1] } }

\* four pillars, for the cubic method
FourPillarLists ==
    { [i \in 1..4 |-> <<DateKey(MkDate(2025, 1, 1) + ds[i]), <<1, Pow2(es[i])>>>>] :
        ds \in {<<0, 30, 60, 120>>}, es \in {<<0, 1, 2, 3>>, <<0, 0, 1, 1>>} }

\* pillars given as tenor strings, as in main()
TenorLists ==
    { <<<<TenorKey("0D"), <<1, 1>>>>, <<TenorKey("1M"), <<1, 2>>>>>>,
      <<<<TenorKey("0D"), <<1, 1>>>>, <<TenorKey("1M"), <<1, 2>>>>, <<TenorKey("3M"), <<1, 4>>>>>> }

\* lists from_model must refuse: dates not increasing, values outside (0, 1.5]
RefusedLists ==
    { <<<<DateKey(MkDate(2025, 3, 2)), <<1, 2>>>>, <<DateKey(ValueDate), <<1, 1>>>>>>,
      <<<<DateKey(ValueDate), <<1, 1>>>>, <<DateKey(ValueDate), <<1, 2>>>>>>,
      <<<<DateKey(ValueDate), <<0, 1>>>>, <<DateKey(MkDate(2025, 3, 2)), <<1, 2>>>>>>,
      <<<<DateKey(ValueDate), <<2, 1>>>>, <<DateKey(MkDate(2025, 3, 2)), <<1, 1>>>>>>,
      <<<<DateKey(ValueDate), <<1, 1>>>>, <<DateKey(MkDate(2025, 3, 2)), <<-1, 2>>>>>>,
      <<<<DateKey(ValueDate), <<1, 1>>>>, <<DateKey(MkDate(2025, 3, 2)), <<25, 16>>>>>>,
      <<<<DateKey(MkDate(2025, 2, 28)), <<1, 1>>>>, <<TenorKey("1M"), <<1, 2>>>>>>,
      <<<<TenorKey("0D"), <<1, 1>>>>, <<TenorKey("0D"), <<1, 2>>>>>> }

\* a list whose first value is the largest from_model accepts
BoundaryLists ==
    { <<<<DateKey(ValueDate), <<3, 2>>>>, <<DateKey(MkDate(2025, 3, 2)), <<1, 1>>>>>> }

\* the value date, then 30 March and 31 March, one day apart
MonthEndLists ==
    { <<<<DateKey(ValueDate), <<1, 1>>>>, <<DateKey(MkDate(2025, 3, 30)), <<1, 2>>>>,
        <<DateKey(MkDate(2025, 3, 31)), <<1, 4>>>>>> }

PillarLists ==
    UNION { IncreasingLists(n) : n \in 2..MaxPillars }
        \cup FourPillarLists \cup TenorLists \cup RefusedLists

CurveModel(p, im, io, ex, dc, cal) ==
    [value_date |-> ValueDate, pillars |-> p, interp_method |-> im,
     interpolation_on |-> io, allow_extrapolation |-> ex, day_count |-> dc,
     calendar |-> cal, business_day_convention |-> "ModifiedFollowing"]

CurveModels ==
    { CurveModel(p, im, io, ex, dc, "TARGET") :
        p \in PillarLists, im \in {"linear", "cubic"},
        io \in {"discount", "log_discount", "zero"}, ex \in BOOLEAN,
        dc \in {"Actual360", "Actual365Fixed"} }
    \cup { CurveModel(p, "linear", "discount", FALSE, "Actual360", "Mars") : p \in TenorLists }
    \cup { CurveModel(p, "linear", "discount", ex, "Actual360", "TARGET") :
             p \in BoundaryLists, ex \in BOOLEAN }
    \cup { CurveModel(p, "linear", "discount", FALSE, dc, "TARGET") :
             p \in MonthEndLists, dc \in DAY_COUNT_MAP }
    \cup { CurveModel(p, im, io, FALSE, dc, "TARGET") :
             p \in TenorLists, im \in {"linear", "quadratic"},
             io \in {"discount", "forward"}, dc \in {"Actual360", "Actual364"} }

-----------------------------------------------------------------------------
(* The curve specification: one curve is built by from_model, then queried. *)

NoModel == [value_date |-> 0]

NoQuery == [date |-> 0, res |-> [err |-> "none"]]

curveVars == <<curve, curveIn, curveErr, query, prevQuery>>

couponVars == <<evalDate, euribor, coupon, couponIn, amountRes>>

legVars == <<leg, legIn, schedRes, buildLog, swap, swapIn>>

pricerVars == <<priceIn, priceRes>>

vars == <<curveVars, couponVars, legVars, pricerVars>>

\* no curve has been built
IdleCurve ==
    /\ curve = NoCurve
    /\ curveIn = NoModel
    /\ curveErr = ""
    /\ query = NoQuery
    /\ prevQuery = NoQuery

\* no index, no coupon
IdleCoupon ==
    /\ evalDate = 0
    /\ euribor = NoIndex
    /\ coupon = NoCoupon
    /\ couponIn = NoCall
    /\ amountRes = NoAmount

\* no leg, no swap
IdleLeg ==
    /\ leg = NoLeg
    /\ legIn = NoCall
    /\ schedRes = NoSchedule
    /\ buildLog = <<>>
    /\ swap = NoSwap
    /\ swapIn = NoCall

\* no price asked
IdlePricer ==
    /\ priceIn = NoCall
    /\ priceRes = NoPrice

CurveInit == IdleCurve /\ IdleCoupon /\ IdleLeg /\ IdlePricer

\* DiscountCurveModel(...) then DiscountCurve.from_model(model)
FromModel ==
    /\ curveIn = NoModel
    /\ \E m \in CurveModels :
          /\ curveIn' = m
          /\ IF ~DiscountCurveModelValid(m)
             THEN curveErr' = "ValidationError" /\ curve' = curve
             ELSE LET c == from_model(m)
                  IN  IF c.err # "" THEN curveErr' = c.err /\ curve' = curve
                      ELSE curveErr' = "" /\ curve' = c
    /\ UNCHANGED <<query, prevQuery, couponVars, legVars, pricerVars>>

\* a query that moves the curve's valuation date to the date it is asked
QueryRebasesCurve(ds) ==
    /\ curve # NoCurve
    /\ \E d \in ds :
          /\ query' = [date |-> d, res |-> discount_factor(curve, d)]
          /\ prevQuery' = query
          /\ curve' = [curve EXCEPT !.valuation_date = d]
    /\ UNCHANGED <<curveIn, curveErr, couponVars, legVars, pricerVars>>

\* curve.discount_factor(target_date) for a target date of ds
DiscountFactorOn(ds) ==
    /\ curve # NoCurve
    /\ \E d \in ds :
          /\ query' = [date |-> d, res |-> discount_factor(curve, d)]
          /\ prevQuery' = query
    /\ UNCHANGED <<curve, curveIn, curveErr, couponVars, legVars, pricerVars>>

\* curve.discount_factor(target_date)
DiscountFactor == DiscountFactorOn(TargetDates)

CurveNext == FromModel \/ DiscountFactor

SpecCurve == CurveInit /\ [][CurveNext]_vars

-----------------------------------------------------------------------------
(* Properties of the curve specification.                                  *)

Called(q) == q # NoQuery

\* the elapsed time of date d on curve c
ElapsedTime(c, d) == year_fraction(c.valuation_date, d, c.day_count).val

OutsideTimes(times, t) == RLt(t, times[1]) \/ RLt(times[Len(times)], t)

\* d lies strictly before the first or strictly after the last pillar time
OutsidePillars(c, d) == OutsideTimes(c.times, ElapsedTime(c, d))

InsidePillarDates(c, d) == c.dates[1] <= d /\ d <= c.dates[Len(c.dates)]

Returned(q, v) == q.res = [err |-> "", val |-> v]

C2_PillarExact ==
    (curve # NoCurve /\ Called(query))
    => \A i \in 1..Len(curve.dates) :
          query.date = curve.dates[i] => Returned(query, NumRat(curve.raw_dfs[i]))

\* what the code does keep: exactness at every pillar except a zero-space
\* pillar at elapsed time t <= 0
C2_PillarExactAtPositiveTimes ==
    (curve # NoCurve /\ Called(query))
    => \A i \in 1..Len(curve.dates) :
          (/\ query.date = curve.dates[i]
           /\ (curve.interpolation_on = "zero" => RLt(RZero, curve.times[i])))
          => Returned(query, NumRat(curve.raw_dfs[i]))

\* a zero-space pillar on the value date with discount factor 1/2 is
\* queried and 1 comes back
C2_Witness ==
    /\ curve # NoCurve
    /\ Called(query)
    /\ curve.interpolation_on = "zero"
    /\ query.date = curve.valuation_date
    /\ curve.dates[1] = curve.valuation_date
    /\ curve.raw_dfs[1] = <<1, 2>>
    /\ Returned(query, NumRat(ROne))

NonIncreasing(dfs) == \A i \in 1..(Len(dfs) - 1) : RLe(dfs[i + 1], dfs[i])

StrictlyDecreasing(dfs) == \A i \in 1..(Len(dfs) - 1) : RLt(dfs[i + 1], dfs[i])

\* two calls on dates d1 <= d2 inside the pillar range of curve c
OrderedQueries(c, q1, q2) ==
    /\ c # NoCurve
    /\ Called(q1)
    /\ Called(q2)
    /\ InsidePillarDates(c, q1.date)
    /\ InsidePillarDates(c, q2.date)
    /\ q1.date <= q2.date

Monotone(q1, q2) ==
    /\ q1.res.err = ""
    /\ q2.res.err = ""
    /\ NumLe(q2.res.val, q1.res.val)

\* C3 as the specification states it: with strictly decreasing pillar
\* discount factors, d1 <= d2 inside the pillar range gives
\* discount_factor(d1) >= discount_factor(d2) in every interpolation space.
C3_MonotoneEverySpace ==
    (OrderedQueries(curve, prevQuery, query) /\ StrictlyDecreasing(curve.raw_dfs))
    => Monotone(prevQuery, query)

\* C3: with pillar discount factors that do not increase, d1 <= d2 inside
\* the pillar range gives discount_factor(d1) >= discount_factor(d2) when
\* the interpolation is linear in the discount or the log_discount space.
C3_MonotoneLinearDiscountLog ==
    (/\ OrderedQueries(curve, prevQuery, query)
     /\ NonIncreasing(curve.raw_dfs)
     /\ curve.interpolator.kind = "linear"
     /\ curve.interpolation_on \in {"discount", "log_discount"})
    => Monotone(prevQuery, query)

\* two different dates strictly between pillars of a log_discount curve
\* with strictly decreasing values
C3_Witness ==
    /\ OrderedQueries(curve, prevQuery, query)
    /\ StrictlyDecreasing(curve.raw_dfs)
    /\ curve.interpolator.kind = "linear"
    /\ curve.interpolation_on = "log_discount"
    /\ curve.raw_dfs[1] # curve.raw_dfs[Len(curve.raw_dfs)]
    /\ prevQuery.date < query.date
    /\ query.date \notin {curve.dates[i] : i \in 1..Len(curve.dates)}
    /\ query.res.val # prevQuery.res.val
    /\ Monotone(prevQuery, query)

\* the date a pillar key of model m stands for
ResolvedDate(m, key) ==
    IF key.ty = "str"
    THEN advance_date(m.value_date, key.s, m.calendar, m.business_day_convention).val
    ELSE key.d

ResolvedDates(m) == [i \in 1..Len(m.pillars) |-> ResolvedDate(m, m.pillars[i][1])]

PillarValues(m) == [i \in 1..Len(m.pillars) |-> m.pillars[i][2]]

StrictlyIncreasingDates(ds) == \A i \in 1..(Len(ds) - 1) : ds[i] < ds[i + 1]

\* every value lies in (0, 1.5]
InRange(dfs) == \A i \in 1..Len(dfs) : RLt(RZero, dfs[i]) /\ RLe(dfs[i], <<3, 2>>)

\* from_model was handed a model whose calendar is known
FromModelCalled == curveIn # NoModel /\ curveIn.calendar \in CALENDAR_MAP

\* C19: DiscountCurve.from_model rejects any pillar list whose resolved
\* dates are not strictly increasing and any pillar whose discount factor
\* is <= 0 or > 1.5; every curve it returns has strictly increasing pillar
\* dates and all pillar values in (0, 1.5].
C19_PillarsValidated ==
    /\ (FromModelCalled
          /\ ~(StrictlyIncreasingDates(ResolvedDates(curveIn)) /\ InRange(PillarValues(curveIn))))
         => (curve = NoCurve /\ curveErr # "")
    /\ curve # NoCurve
         => /\ StrictlyIncreasingDates(curve.dates)
            /\ InRange(curve.raw_dfs)
            /\ curve.dates = ResolvedDates(curveIn)
            /\ curve.raw_dfs = PillarValues(curveIn)

\* from_model was handed a date and a tenor string that resolve to the same
\* day, with values in range, and returned no curve
C19_Witness ==
    /\ FromModelCalled
    /\ Len(curveIn.pillars) = 2
    /\ curveIn.pillars[1][1].ty # curveIn.pillars[2][1].ty
    /\ ResolvedDates(curveIn)[1] = ResolvedDates(curveIn)[2]
    /\ InRange(PillarValues(curveIn))
    /\ curve = NoCurve
    /\ curveErr = "ValueError"

\* from_model returned a curve whose first pillar value is 1.5
C19_BoundaryAccepted ==
    curve # NoCurve /\ curve.raw_dfs[1] = <<3, 2>>

StrictlyIncreasingTimes(ts) == \A i \in 1..(Len(ts) - 1) : RLt(ts[i], ts[i + 1])

NonDecreasingTimes(ts) == \A i \in 1..(Len(ts) - 1) : RLe(ts[i], ts[i + 1])

\* C27: for every curve built from strictly increasing pillar dates, the
\* elapsed times computed at construction are strictly increasing, under
\* each supported day-count convention (Actual360, Actual365Fixed,
\* Thirty360, Thirty360E), pillar dates one day apart around the 30th and
\* 31st of a month included.
C27_TimesStrictlyIncreasing ==
    (curve # NoCurve /\ StrictlyIncreasingDates(curve.dates))
    => StrictlyIncreasingTimes(curve.times)

\* the times are strictly increasing under the two actual-day conventions
\* and never decrease under the two 30/360 conventions
C27_TimesIncreasingActual ==
    curve # NoCurve
    => /\ NonDecreasingTimes(curve.times)
       /\ curve.day_count \in {"Actual360", "Actual365Fixed"}
            => StrictlyIncreasingTimes(curve.times)

\* a curve was built under Thirty360 with pillars on 30 and 31 March, and
\* the two pillars have the same elapsed time
C27_Witness ==
    /\ curve # NoCurve
    /\ curve.day_count = "Thirty360"
    /\ StrictlyIncreasingDates(curve.dates)
    /\ curve.dates[2] = MkDate(2025, 3, 30)
    /\ curve.dates[3] = MkDate(2025, 3, 31)
    /\ curve.times[2] = curve.times[3]
    /\ curve.raw_dfs[2] # curve.raw_dfs[3]


-----------------------------------------------------------------------------
(* Inputs of the coupon specification.                                     *)

\* the forwarding curve of the index starts on 2025-01-31
CurveRef == MkDate(2025, 1, 31)

\* 1 January (a TARGET holiday), the fixing date of a coupon starting on
\* 31 January, that start date, the accrual end of the coupons and their
\* payment date
EvalDates ==
    {MkDate(2025, 1, 1), MkDate(2025, 1, 29), MkDate(2025, 1, 31), MkDate(2025, 4, 30),
     MkDate(2025, 5, 2)}

\* the fixings that index.addFixing may record
Fixings == {<<MkDate(2025, 1, 29), <<1, 40>>>>, <<MkDate(2025, 1, 31), <<1, 25>>>>}

\* a Friday and the Saturday after it
StartDates == {MkDate(2025, 1, 31), MkDate(2025, 2, 1)}

FixedCouponModels ==
    [start_date : {MkDate(2025, 1, 31)}, end_date : {MkDate(2025, 2, 28), MkDate(2025, 4, 30)},
     payment_date : {MkDate(2025, 4, 30), MkDate(2025, 5, 2)},
     notional : {RInt(1000)}, fixed_rate : {RZero, <<1, 20>>},
     calendar : {"TARGET", "NullCalendar"},
     day_count : {"Actual360", "Thirty360", "Actual365Fixed"}]

FixedCouponBase ==
    [start_date |-> MkDate(2025, 1, 31), end_date |-> MkDate(2025, 4, 30),
     payment_date |-> MkDate(2025, 5, 2), notional |-> RInt(1000), fixed_rate |-> ROne,
     calendar |-> "TARGET", day_count |-> "Actual360"]

\* models check_fields and check_dates_consistency reject
RefusedFixedCouponModels ==
    { [FixedCouponBase EXCEPT !.notional = RZero],
      [FixedCouponBase EXCEPT !.fixed_rate = <<3, 2>>],
      [FixedCouponBase EXCEPT !.fixed_rate = <<-1, 100>>],
      [FixedCouponBase EXCEPT !.calendar = "Mars"],
      [FixedCouponBase EXCEPT !.day_count = "Thirty360E"],
      [FixedCouponBase EXCEPT !.end_date = MkDate(2025, 1, 31)],
      [FixedCouponBase EXCEPT !.payment_date = MkDate(2025, 4, 29)] }

FloatingCouponModels ==
    [start_date : StartDates, end_date : {MkDate(2025, 4, 30)},
     payment_date : {MkDate(2025, 5, 2)}, notional : {RInt(1000)}, spread : {<<1, 1000>>},
     index_name : {"EURIBOR3M"}, calendar : {"TARGET", "NullCalendar"},
     day_count : {"Actual360", "Thirty360"}, fixing_lag : {0, 2},
     convention : {"ModifiedFollowing", "Preceding"}]

FloatingCouponBase ==
    [start_date |-> MkDate(2025, 1, 31), end_date |-> MkDate(2025, 4, 30),
     payment_date |-> MkDate(2025, 5, 2), notional |-> RInt(250), spread |-> RZero,
     index_name |-> "EURIBOR3M", calendar |-> "TARGET", day_count |-> "Actual360",
     fixing_lag |-> 2, convention |-> "ModifiedFollowing"]

\* coupons that start on Saturday 2025-02-01 with no fixing lag, under the
\* two conventions FloatingCouponModels leaves out
WeekendStartModels ==
    { [FloatingCouponBase EXCEPT !.start_date = MkDate(2025, 2, 1), !.fixing_lag = 0,
                                 !.convention = c] : c \in {"Following", "Unadjusted"} }

\* models validate_before and validate_after reject
RefusedFloatingCouponModels ==
    { [FloatingCouponBase EXCEPT !.notional = RZero],
      [FloatingCouponBase EXCEPT !.calendar = "Mars"],
      [FloatingCouponBase EXCEPT !.day_count = "Actual364"],
      [FloatingCouponBase EXCEPT !.fixing_lag = -1],
      [FloatingCouponBase EXCEPT !.convention = "Sideways"],
      [FloatingCouponBase EXCEPT !.end_date = MkDate(2025, 1, 31)],
      [FloatingCouponBase EXCEPT !.payment_date = MkDate(2025, 4, 29)] }

-----------------------------------------------------------------------------
(* The coupon specification: an index is created, fixings are recorded,    *)
(* the evaluation date is set, coupons are built and asked their amount.   *)

\* ql.Settings.instance().evaluationDate = ...; index = ql.Euribor3M(...)
CouponInit ==
    /\ IdleCurve
    /\ IdleLeg
    /\ IdlePricer
    /\ evalDate \in EvalDates
    /\ euribor \in [fixings : {{}}, curve : {NoHandle, CurveRef}]
    /\ coupon = NoCoupon
    /\ couponIn = NoCall
    /\ amountRes = NoAmount

\* ql.Settings.instance().evaluationDate = d
SetEvaluationDate ==
    /\ \E d \in EvalDates : d # evalDate /\ evalDate' = d
    /\ UNCHANGED <<euribor, coupon, couponIn, amountRes, curveVars, legVars, pricerVars>>

\* index.addFixing(date, rate): refused for a date that is no business day
\* of the index and for a date that already has a fixing
AddFixing ==
    /\ \E f \in Fixings :
          /\ IsBusinessDay("TARGET", f[1])
          /\ ~HasFixing(euribor, f[1])
          /\ euribor' = [euribor EXCEPT !.fixings = @ \cup {f}]
    /\ UNCHANGED <<evalDate, coupon, couponIn, amountRes, curveVars, legVars, pricerVars>>

\* FixedCoupon(FixedCouponModel(...))
NewFixedCoupon ==
    /\ \E m \in FixedCouponModels \cup RefusedFixedCouponModels \cup {FixedCouponBase} :
          /\ couponIn' = [kind |-> "fixed", model |-> m]
          /\ coupon' = IF FixedCouponModelValid(m) THEN FixedCoupon(m)
                        ELSE [err |-> "ValidationError"]
    /\ amountRes' = NoAmount
    /\ UNCHANGED <<evalDate, euribor, curveVars, legVars, pricerVars>>

\* FloatingCoupon(FloatingCouponModel(...), index)
NewFloatingCoupon ==
    /\ \E m \in FloatingCouponModels \cup RefusedFloatingCouponModels \cup WeekendStartModels
                  \cup {FloatingCouponBase} :
          /\ couponIn' = [kind |-> "floating", model |-> m, index |-> euribor,
                          eval_date |-> evalDate]
          /\ coupon' = IF FloatingCouponModelValid(m) THEN FloatingCoupon(m, euribor, evalDate)
                        ELSE [err |-> "ValidationError"]
    /\ amountRes' = NoAmount
    /\ UNCHANGED <<evalDate, euribor, curveVars, legVars, pricerVars>>

\* coupon.amount()
Amount ==
    /\ coupon.err = ""
    /\ amountRes' = [err |-> "", val |-> amount(coupon)]
    /\ UNCHANGED <<evalDate, euribor, coupon, couponIn, curveVars, legVars, pricerVars>>

CouponNext ==
    SetEvaluationDate \/ AddFixing \/ NewFixedCoupon \/ NewFloatingCoupon \/ Amount

SpecCoupon == CouponInit /\ [][CouponNext]_vars


-----------------------------------------------------------------------------
(* Properties of the coupon specification.                                 *)

\* fixed_rate for a FixedCoupon, index_rate + spread for a FloatingCoupon
EffectiveRate(c) ==
    IF c.kind = "fixed" THEN c.fixed_rate ELSE RAdd(c.index_rate, c.spread)

\* year_fraction(start_date, end_date) under the coupon's day count
Accrual(c) == DayCountFraction(c.day_count, c.start_date, c.end_date)

\* a = notional * rate * accrual, stated without the product of the three
IsProduct(a, notional, rate, accrual) ==
    IF accrual = RZero THEN a = RZero ELSE RDiv(a, accrual) = RMul(notional, rate)

\* C4: amount() of every coupon equals notional * effective rate *
\* year_fraction(start_date, end_date) under the coupon's day count; the
\* payment date, the calendar and the curve do not enter.
C4_AmountFormula ==
    amountRes # NoAmount
    => IsProduct(amountRes.val, coupon.notional, EffectiveRate(coupon), Accrual(coupon))

\* amount() was called on a floating coupon paid after its accrual end,
\* with a rate projected from the curve, and returned a non-zero amount
C4_Witness ==
    /\ amountRes # NoAmount
    /\ coupon.kind = "floating"
    /\ coupon.rate_source = "forward"
    /\ coupon.payment_date > coupon.end_date
    /\ amountRes.val # RZero
    /\ IsProduct(amountRes.val, coupon.notional, EffectiveRate(coupon), Accrual(coupon))

FloatingBuilt == coupon.err = "" /\ couponIn.kind = "floating"

\* the index handed to the constructor holds a fixing at the fixing date
FixingRecorded == HasFixing(couponIn.index, coupon.fixing_date)

UsesFixing ==
    /\ coupon.rate_source = "fixing"
    /\ coupon.index_rate = PastFixing(couponIn.index, coupon.fixing_date)

DatesAndNotional(x) ==
    /\ x.end_date > x.start_date
    /\ x.payment_date >= x.end_date
    /\ RLt(RZero, x.notional)

Constraints(kind, x) ==
    /\ DatesAndNotional(x)
    /\ kind = "fixed" => (RLe(RZero, x.fixed_rate) /\ RLe(x.fixed_rate, ROne))
    /\ kind = "floating" => x.fixing_lag >= 0

\* the coupon carries the dates and the notional of the model it was built
\* from
BuiltFrom(c, m) ==
    /\ c.start_date = m.start_date
    /\ c.end_date = m.end_date
    /\ c.payment_date = m.payment_date
    /\ c.notional = m.notional

\* C17: every FixedCoupon and FloatingCoupon that exists was built from a
\* validated model and satisfies end_date > start_date, payment_date >=
\* end_date and notional > 0 (and 0 <= fixed_rate <= 1 for a FixedCoupon,
\* fixing_lag >= 0 for a FloatingCoupon); a model violating any of these is
\* rejected and no coupon is created.
C17_CouponsValidated ==
    /\ coupon.err = ""
         => /\ coupon.kind = couponIn.kind
            /\ BuiltFrom(coupon, couponIn.model)
            /\ Constraints(coupon.kind, coupon)
    /\ (couponIn # NoCall /\ ~Constraints(couponIn.kind, couponIn.model))
         => coupon = [err |-> "ValidationError"]

\* a fixed coupon model that ends on its start date was handed to the
\* constructor call and no coupon was created
C17_Witness ==
    /\ couponIn.kind = "fixed"
    /\ couponIn.model.end_date = couponIn.model.start_date
    /\ RLt(RZero, couponIn.model.notional)
    /\ coupon = [err |-> "ValidationError"]

\* the coupon the constructor call recorded in couponIn returned, on the
\* index and under the evaluation date of the moment of the call
AsConstructed == FloatingCoupon(couponIn.model, couponIn.index, couponIn.eval_date)

\* the index or the evaluation date has changed since the constructor call
ChangedSince == euribor # couponIn.index \/ evalDate # couponIn.eval_date

ForwardUsed == FloatingBuilt /\ coupon.rate_source = "forward"

LaterOf(a, b) == IF a < b THEN b ELSE a

C21_FromFixingDate ==
    /\ ForwardUsed
    /\ coupon.fixing_date > couponIn.eval_date
    /\ coupon.fwd_start = coupon.fixing_date

\* the fixing date FloatingCoupon.__init__ computes for model m
FixingDateOf(m) == AdvanceDays(m.calendar, m.start_date, -m.fixing_lag, m.convention)

\* the constructor was called with a valid model on an index that has a
\* curve, and the try branch of _determine_rate raised
ProjectionCalled ==
    /\ couponIn.kind = "floating"
    /\ FloatingCouponModelValid(couponIn.model)
    /\ couponIn.index.curve # NoHandle
    /\ IndexFixing(couponIn.index, FixingDateOf(couponIn.model), couponIn.eval_date).err # ""

\* C22: for every valid FloatingCoupon model and every evaluation date,
\* when the forward projection is used the projection interval has positive
\* length: the clamped forward-rate start is strictly before the coupon's
\* end_date, also when the whole accrual period lies on or before the
\* evaluation date and no fixing is recorded.
C22_ProjectionIntervalPositive ==
    ProjectionCalled
    => /\ coupon.err = ""
       /\ coupon.fwd_start < coupon.end_date

\* the interval is positive whenever the evaluation date lies before the
\* accrual end
C22_PositiveBeforeAccrualEnd ==
    (ProjectionCalled /\ couponIn.eval_date < couponIn.model.end_date)
    => /\ coupon.err = ""
       /\ coupon.fwd_start < coupon.end_date

\* the constructor raises when the evaluation date lies after the accrual
\* end
C22_RaisesAfterAccrualEnd ==
    (ProjectionCalled /\ couponIn.eval_date > couponIn.model.end_date)
    => coupon = [err |-> "RuntimeError"]

\* a coupon built on the last day of its accrual period, with no fixing
\* recorded, was projected over the empty interval [end_date, end_date]
C22_Witness ==
    /\ ProjectionCalled
    /\ ~HasFixing(couponIn.index, FixingDateOf(couponIn.model))
    /\ couponIn.eval_date = couponIn.model.end_date
    /\ coupon.err = ""
    /\ coupon.rate_source = "forward"
    /\ coupon.fwd_start = coupon.end_date

\* the coupon the constructor would return for the same model and the same
\* index state under evaluation date e
UnderEvaluationDate(e) == FloatingCoupon(couponIn.model, couponIn.index, e)

SameRate(a, b) == a.err = "" /\ b.err = "" /\ a.index_rate = b.index_rate

\* C25: the rate resolved by a FloatingCoupon depends only on the coupon
\* model and the index: two constructions with the same model and the same
\* index state yield the same index_rate whatever the value of the
\* process-wide evaluation date at the time of each construction.
C25_RateIndependentOfEvaluationDate ==
    FloatingBuilt => \A e \in EvalDates : SameRate(coupon, UnderEvaluationDate(e))

\* two constructions with the same model, the same index state and the
\* same evaluation date yield the same coupon
C25_RateDeterminedByInputsAndDate ==
    FloatingBuilt => coupon = UnderEvaluationDate(couponIn.eval_date)

\* a coupon was built under evaluation date 2025-01-29 with the projected
\* rate; the same model and index give another rate under 2025-01-31
C25_Witness ==
    /\ FloatingBuilt
    /\ couponIn.eval_date = MkDate(2025, 1, 29)
    /\ couponIn.index.fixings = {}
    /\ UnderEvaluationDate(MkDate(2025, 1, 31)).err = ""
    /\ UnderEvaluationDate(MkDate(2025, 1, 31)).index_rate # coupon.index_rate

\* C29: for every FloatingCoupon with fixing_lag >= 0, under every
\* supported calendar and business-day convention, the computed
\* fixing_date is on or before the coupon's accrual start_date, also when
\* fixing_lag = 0 and start_date is not a business day.
C29_FixingOnOrBeforeStart ==
    FloatingBuilt => coupon.fixing_date <= coupon.start_date

\* the fixing date is on or before the start date when the lag is
\* positive, when the start date is a business day of the coupon's calendar
\* and when the convention moves backwards
C29_FixingBeforeStartOtherwise ==
    (FloatingBuilt
        /\ (\/ coupon.fixing_lag > 0
            \/ IsBusinessDay(coupon.calendar, coupon.start_date)
            \/ couponIn.model.convention \in {"Preceding", "Unadjusted"}))
    => coupon.fixing_date <= coupon.start_date

\* a coupon starting on Saturday 2025-02-01 with fixing_lag 0 under TARGET
\* and ModifiedFollowing has its fixing date on Monday 2025-02-03
C29_Witness ==
    /\ FloatingBuilt
    /\ coupon.fixing_lag = 0
    /\ coupon.start_date = MkDate(2025, 2, 1)
    /\ coupon.calendar = "TARGET"
    /\ couponIn.model.convention = "ModifiedFollowing"
    /\ coupon.fixing_date = MkDate(2025, 2, 3)


-----------------------------------------------------------------------------
(* ql.Schedule(effectiveDate, terminationDate, tenor, calendar, convention, *)
(* terminationDateConvention, ql.DateGeneration.Forward, False).            *)
(* tenor is the value the caller passes: [type |-> "Period", months |-> n]  *)
(* for a ql.Period, [type |-> "str", name |-> s] for a Python string, for   *)
(* which no overload of the constructor is found.                           *)

\* the unadjusted date temp is kept unless it adjusts to the same day as
\* the last date kept
ScheduleKeep(dates, temp, calendar, convention) ==
    IF Adjust(calendar, dates[Len(dates)], convention) # Adjust(calendar, temp, convention)
    THEN Append(dates, temp)
    ELSE dates

RECURSIVE ScheduleLoop(_, _, _, _, _, _, _)

\* one turn of the generation loop, temp = seed + periods * tenor
ScheduleStep(dates, temp, seed, periods, tenor, exitDate, calendar, convention) ==
    IF temp > exitDate THEN dates
    ELSE ScheduleLoop(ScheduleKeep(dates, temp, calendar, convention),
                      seed, periods + 1, tenor, exitDate, calendar, convention)

\* the Forward rule: seed, seed + tenor, seed + 2 tenor, ... up to exitDate
ScheduleLoop(dates, seed, periods, tenor, exitDate, calendar, convention) ==
    ScheduleStep(dates, AddMonths(seed, periods * tenor), seed, periods, tenor,
                 exitDate, calendar, convention)

\* the termination date closes the schedule unless the last date kept
\* adjusts to the same day
ScheduleClose(dates, terminationDate, calendar, terminationDateConvention) ==
    IF Adjust(calendar, dates[Len(dates)], terminationDateConvention)
         # Adjust(calendar, terminationDate, terminationDateConvention)
    THEN Append(dates, terminationDate)
    ELSE dates

\* every date but the last under convention, the last under
\* terminationDateConvention
ScheduleAdjust(dates, calendar, convention, terminationDateConvention) ==
    [i \in 1..Len(dates) |->
        IF i = Len(dates) /\ i > 1
        THEN Adjust(calendar, dates[i], terminationDateConvention)
        ELSE Adjust(calendar, dates[i], convention)]

\* a next-to-last date on or after the last one is removed
DropNextToLast(dates) ==
    IF Len(dates) >= 2 /\ dates[Len(dates) - 1] >= dates[Len(dates)]
    THEN Append(SubSeq(dates, 1, Len(dates) - 2), dates[Len(dates)])
    ELSE dates

\* a second date on or before the first one is removed
DropSecond(dates) ==
    IF Len(dates) >= 2 /\ dates[2] <= dates[1]
    THEN <<dates[1]>> \o SubSeq(dates, 3, Len(dates))
    ELSE dates

\* QL_ENSURE(dates_.size() > 1, "degenerate single date schedule")
ScheduleEnsure(dates) ==
    IF Len(dates) > 1 THEN [err |-> "", dates |-> dates] ELSE [err |-> "RuntimeError"]

Schedule(effectiveDate, terminationDate, tenor, calendar, convention, terminationDateConvention) ==
    IF tenor.type # "Period" THEN [err |-> "TypeError"]
    ELSE IF effectiveDate >= terminationDate THEN [err |-> "RuntimeError"]
    ELSE ScheduleEnsure(DropSecond(DropNextToLast(
            ScheduleAdjust(
                ScheduleClose(
                    ScheduleLoop(<<effectiveDate>>, effectiveDate, 1, tenor.months,
                                 terminationDate, calendar, convention),
                    terminationDate, calendar, terminationDateConvention),
                calendar, convention, terminationDateConvention))))

-----------------------------------------------------------------------------
(* pricer/instruments/leg.py, fixed_leg.py, floating_leg.py                *)

\* BaseLeg.generate_schedule
generate_schedule(self) ==
    Schedule(self.start_date, self.end_date, self.payment_frequency, self.calendar,
             self.business_convention, self.business_convention)

\* FixeLegModel: check_fields and check_dates_consistency
FixeLegModelValid(m) ==
    /\ RLt(RZero, m.notional)
    /\ RLe(RZero, m.fixed_rate)
    /\ RLe(m.fixed_rate, ROne)
    /\ m.calendar \in {"TARGET", "UnitedStates", "NullCalendar"}
    /\ m.day_count \in {"Actual360", "Thirty360", "Actual365Fixed"}
    /\ m.end_date > m.start_date

\* FixedLeg.__init__: payment_frequency stays the string of the model
FixedLeg(model) ==
    IF model.calendar \notin {"TARGET", "UnitedStates", "NullCalendar"}
    THEN [err |-> "ValueError"]
    ELSE IF model.day_count \notin {"Actual360", "Thirty360", "Actual365Fixed"}
    THEN [err |-> "ValueError"]
    ELSE IF model.business_convention \notin {"Following", "ModifiedFollowing", "Preceding"}
    THEN [err |-> "ValueError"]
    ELSE [err |-> "", kind |-> "fixed",
          start_date |-> model.start_date, end_date |-> model.end_date,
          notional |-> model.notional, calendar |-> model.calendar,
          payment_frequency |-> [type |-> "str", name |-> model.payment_frequency],
          day_count |-> model.day_count,
          business_convention |-> model.business_convention,
          payment_lag |-> model.payment_lag, coupons |-> <<>>,
          fixed_rate |-> model.fixed_rate]

\* FixedCoupon(**kwargs): __init__ takes the one parameter model
FixedCouponCall(kwargs) ==
    IF DOMAIN kwargs # {"model"} THEN [err |-> "TypeError"] ELSE FixedCoupon(kwargs.model)

RECURSIVE FixedLegLoop(_, _, _, _)

FixedLegAppend(self, dates, i, coupons, c) ==
    IF c.err # "" THEN [err |-> c.err] ELSE FixedLegLoop(self, dates, i + 1, Append(coupons, c))

\* the loop of FixedLeg.build_leg over i in range(schedule.size()), i
\* counted from 0; schedule.date(k) fails for k >= schedule.size()
FixedLegLoop(self, dates, i, coupons) ==
    IF i >= Len(dates) THEN [err |-> "", ret |-> coupons]
    ELSE IF i + 2 >= Len(dates) THEN [err |-> "RuntimeError"]
    ELSE FixedLegAppend(self, dates, i, coupons,
            FixedCouponCall([start_date |-> dates[i + 1], end_date |-> dates[i + 2],
                             payment_date |-> dates[i + 3], notional |-> self.notional,
                             fixed_rate |-> self.fixed_rate, calendar |-> self.calendar,
                             day_count |-> self.day_count]))

FixedLegCoupons(self, schedule) ==
    IF schedule.err # "" THEN [err |-> schedule.err]
    ELSE FixedLegLoop(self, schedule.dates, 0, <<>>)

\* FixedLeg.build_leg: [err, ret |-> the list returned, coupons |->
\* self.coupons after the call]; the list is local, self.coupons is not set
FixedLeg_build_leg(self) ==
    FixedLegCoupons(self, generate_schedule(self)) @@ [ret |-> <<>>, coupons |-> self.coupons]

\* FloatingLegModel: check_fields, which skips a value that is falsy (0,
\* the empty string), and check_dates
FloatingLegModelValid(m) ==
    /\ RLe(RZero, m.notional)
    /\ m.payment_frequency = "" \/ m.payment_frequency \in DOMAIN PAYMENT_FREQUENCY_MAP
    /\ m.calendar = "" \/ m.calendar \in CALENDAR_MAP
    /\ m.day_count = "" \/ m.day_count \in DAY_COUNT_MAP
    /\ m.business_convention = "" \/ m.business_convention \in BUSINESS_CONVENTION_MAP
    /\ m.end_date > m.start_date

\* FloatingLeg.__init__: the four names are looked up in the mappings;
\* self.index is the index object euribor, which build_leg is given
FloatingLeg(model) ==
    IF \/ model.calendar \notin CALENDAR_MAP
       \/ model.day_count \notin DAY_COUNT_MAP
       \/ model.business_convention \notin BUSINESS_CONVENTION_MAP
       \/ model.payment_frequency \notin DOMAIN PAYMENT_FREQUENCY_MAP
    THEN [err |-> "KeyError"]
    ELSE [err |-> "", kind |-> "floating", model |-> model,
          start_date |-> model.start_date, end_date |-> model.end_date,
          notional |-> model.notional, calendar |-> model.calendar,
          payment_frequency |->
              [type |-> "Period", months |-> PAYMENT_FREQUENCY_MAP[model.payment_frequency]],
          day_count |-> model.day_count,
          business_convention |-> model.business_convention,
          payment_lag |-> model.payment_lag, coupons |-> <<>>,
          spread |-> model.spread, fixing_lag |-> model.fixing_lag]

\* the FloatingCouponModel of the period [start, end] (lines 117-128)
FloatingLegCouponModel(self, start, end, payment_date) ==
    [start_date |-> start, end_date |-> end, payment_date |-> payment_date,
     notional |-> self.model.notional, spread |-> self.spread,
     index_name |-> self.model.index_name, calendar |-> self.model.calendar,
     day_count |-> self.model.day_count, fixing_lag |-> self.fixing_lag,
     convention |-> self.model.business_convention]

\* FloatingCoupon(FloatingCouponModel(...), self.index)
FloatingLegCouponOf(coupon_model, index, eval_date) ==
    IF ~FloatingCouponModelValid(coupon_model) THEN [err |-> "ValidationError"]
    ELSE FloatingCoupon(coupon_model, index, eval_date)

\* the body of the loop of FloatingLeg.build_leg for one period
FloatingLegCoupon(self, index, start, end, eval_date) ==
    FloatingLegCouponOf(
        FloatingLegCouponModel(self, start, end,
            AdvanceDays(self.calendar, end, self.model.payment_lag, self.business_convention)),
        index, eval_date)

RECURSIVE FloatingLegLoop(_, _, _, _, _, _)

\* self.coupons.append(coupon), or the exception of the coupon leaving the
\* coupons appended before it in self.coupons
FloatingLegAppend(self, index, schedule, i, coupons, eval_date, c) ==
    IF c.err # "" THEN [err |-> c.err, ret |-> <<>>, coupons |-> coupons]
    ELSE FloatingLegLoop(self, index, schedule, i + 1, Append(coupons, c), eval_date)

\* the loop over the periods i = 1 .. len(schedule) - 1; coupons is
\* self.coupons, which the loop extends
FloatingLegLoop(self, index, schedule, i, coupons, eval_date) ==
    IF i > Len(schedule) - 1 THEN [err |-> "", ret |-> coupons, coupons |-> coupons]
    ELSE FloatingLegAppend(self, index, schedule, i, coupons, eval_date,
            FloatingLegCoupon(self, index, schedule[i], schedule[i + 1], eval_date))

FloatingLegCoupons(self, index, schedule, eval_date) ==
    IF schedule.err # "" THEN [err |-> schedule.err, ret |-> <<>>, coupons |-> self.coupons]
    ELSE FloatingLegLoop(self, index, schedule.dates, 1, self.coupons, eval_date)

\* FloatingLeg.build_leg, under the index and the evaluation date of the
\* moment: [err, ret |-> the list returned, coupons |-> self.coupons after
\* the call]
FloatingLeg_build_leg(self, index, eval_date) ==
    FloatingLegCoupons(self, index, generate_schedule(self), eval_date)

\* leg.build_leg()
build_leg(self, index, eval_date) ==
    IF self.kind = "fixed" THEN FixedLeg_build_leg(self)
    ELSE FloatingLeg_build_leg(self, index, eval_date)

-----------------------------------------------------------------------------
(* pricer/instruments/swap.py                                              *)

\* the names pricer/instruments/fixed_leg.py binds at module level
fixed_leg_names ==
    {"date", "BaseModel", "model_validator", "ql", "BaseLeg", "FixedCouponModel",
     "FixedCoupon", "FixeLegModel", "FixedLeg", "main"}

\* from pricer.instruments.fixed_leg import FixedLegModel, FixedLeg, which
\* runs when swap.py is imported
swap_import ==
    IF {"FixedLegModel", "FixedLeg"} \subseteq fixed_leg_names THEN "" ELSE "ImportError"

\* SwapModel: check_fields and check_dates
SwapModelValid(m) ==
    /\ RLt(RZero, m.notional)
    /\ m.end_date > m.trade_date

\* fixed_data of Swap.__init__
fixed_data(model, value_py) ==
    [start_date |-> value_py, end_date |-> model.end_date, notional |-> model.notional,
     payment_frequency |-> model.fixed_frequency, fixed_rate |-> model.fixed_rate,
     calendar |-> model.calendar, day_count |-> model.fixed_day_count,
     business_convention |-> model.fixed_business_convention,
     payment_lag |-> model.fixed_payment_lag]

\* floating_data of Swap.__init__
floating_data(model, value_py) ==
    [start_date |-> value_py, end_date |-> model.end_date, notional |-> model.notional,
     payment_frequency |-> model.floating_frequency, index_name |-> "EURIBOR3M",
     spread |-> model.spread, calendar |-> model.calendar,
     day_count |-> model.floating_day_count,
     business_convention |-> model.floating_business_convention,
     fixing_lag |-> 2, payment_lag |-> model.floating_payment_lag]

\* the leg after its build_leg call, or the error the call raised
LegAfterBuild(l, built) ==
    IF built.err # "" THEN [err |-> built.err] ELSE [l EXCEPT !.coupons = built.coupons]

\* leg.build_leg() on a leg just constructed
LegBuilt(l, index, eval_date) ==
    IF l.err # "" THEN l ELSE LegAfterBuild(l, build_leg(l, index, eval_date))

\* FixedLeg(FixedLegModel(**fixed_data))
SwapFixedLeg(data) ==
    IF FixeLegModelValid(data) THEN FixedLeg(data) ELSE [err |-> "ValidationError"]

\* FloatingLeg(FloatingLegModel(**floating_data), index = floating_index)
SwapFloatingLeg(data) ==
    IF FloatingLegModelValid(data) THEN FloatingLeg(data) ELSE [err |-> "ValidationError"]

\* the swap once both legs are there, or the error of the first leg that
\* failed
SwapOf(model, value_date, fixed_leg, floating_leg) ==
    IF fixed_leg.err # "" THEN [err |-> fixed_leg.err]
    ELSE IF floating_leg.err # "" THEN [err |-> floating_leg.err]
    ELSE [err |-> "", model |-> model, value_date |-> value_date,
          fixed_leg |-> fixed_leg, floating_leg |-> floating_leg]

SwapAt(model, floating_index, eval_date, value_date) ==
    SwapOf(model, value_date,
           LegBuilt(SwapFixedLeg(fixed_data(model, value_date)), floating_index, eval_date),
           LegBuilt(SwapFloatingLeg(floating_data(model, value_date)), floating_index, eval_date))

\* Swap.__init__: value_date = calendar.advance(trade_date, spot_lag days)
Swap(model, floating_index, eval_date) ==
    SwapAt(model, floating_index, eval_date,
           AdvanceDays(model.calendar, model.trade_date, model.spot_lag, "Following"))

-----------------------------------------------------------------------------
(* Inputs of the leg specification.                                        *)

\* build_leg is called at most MaxBuilds times on one leg
MaxBuilds == 2

\* Friday 31 January 2025 and the Saturday after it
LegStartDates == {MkDate(2025, 1, 31), MkDate(2025, 2, 1)}

\* Sunday 2 February, Wednesday 30 April and Monday 30 June 2025
LegEndDates == {MkDate(2025, 2, 2), MkDate(2025, 4, 30), MkDate(2025, 6, 30)}

FixedLegBase ==
    [start_date |-> MkDate(2025, 1, 31), end_date |-> MkDate(2025, 6, 30),
     notional |-> RInt(1000), payment_frequency |-> "1M", fixed_rate |-> <<1, 20>>,
     calendar |-> "TARGET", day_count |-> "Actual360",
     business_convention |-> "ModifiedFollowing", payment_lag |-> 0]

FixedLegModels ==
    [start_date : LegStartDates, end_date : LegEndDates,
     notional : {RInt(1000)}, payment_frequency : {"1M", "6M"}, fixed_rate : {<<1, 20>>},
     calendar : {"TARGET"}, day_count : {"Actual360"},
     business_convention : {"Following", "ModifiedFollowing"}, payment_lag : {0}]
    \cup { [FixedLegBase EXCEPT !.business_convention = "Unadjusted"],
           [FixedLegBase EXCEPT !.business_convention = "Preceding"],
           [FixedLegBase EXCEPT !.calendar = "NullCalendar"],
           [FixedLegBase EXCEPT !.payment_frequency = "2W"],
           [FixedLegBase EXCEPT !.payment_lag = 2],
           [FixedLegBase EXCEPT !.notional = RZero],
           [FixedLegBase EXCEPT !.fixed_rate = <<3, 2>>],
           [FixedLegBase EXCEPT !.day_count = "Thirty360E"],
           [FixedLegBase EXCEPT !.end_date = MkDate(2025, 1, 31)] }

FloatingLegBase ==
    [start_date |-> MkDate(2025, 1, 31), end_date |-> MkDate(2025, 6, 30),
     notional |-> RInt(1000), payment_frequency |-> "1M", index_name |-> "EURIBOR3M",
     spread |-> <<1, 400>>, calendar |-> "TARGET", day_count |-> "Actual360",
     business_convention |-> "ModifiedFollowing", fixing_lag |-> 2, payment_lag |-> 2]

FloatingLegModels ==
    [start_date : LegStartDates, end_date : LegEndDates,
     notional : {RInt(1000)}, payment_frequency : {"1M", "3M"}, index_name : {"EURIBOR3M"},
     spread : {<<1, 400>>}, calendar : {"TARGET"}, day_count : {"Actual360"},
     business_convention : {"Following", "ModifiedFollowing"}, fixing_lag : {2},
     payment_lag : {0, 2}]
    \cup { [FloatingLegBase EXCEPT !.business_convention = "Unadjusted"],
           [FloatingLegBase EXCEPT !.business_convention = "Preceding"],
           [FloatingLegBase EXCEPT !.calendar = "NullCalendar"],
           [FloatingLegBase EXCEPT !.day_count = "Thirty360"],
           [FloatingLegBase EXCEPT !.payment_frequency = "12M"],
           [FloatingLegBase EXCEPT !.payment_lag = -1],
           [FloatingLegBase EXCEPT !.notional = RZero],
           [FloatingLegBase EXCEPT !.notional = RInt(-1000)],
           [FloatingLegBase EXCEPT !.payment_frequency = ""],
           [FloatingLegBase EXCEPT !.payment_frequency = "2W"],
           [FloatingLegBase EXCEPT !.end_date = MkDate(2025, 1, 31)] }

SwapBase ==
    [trade_date |-> MkDate(2025, 1, 31), end_date |-> MkDate(2026, 1, 31), spot_lag |-> 2,
     notional |-> RInt(1000), fixed_rate |-> <<1, 20>>, fixed_frequency |-> "1M",
     floating_frequency |-> "1M", spread |-> <<1, 400>>, calendar |-> "TARGET",
     fixed_day_count |-> "Actual360", floating_day_count |-> "Actual360",
     fixed_business_convention |-> "Following",
     floating_business_convention |-> "ModifiedFollowing",
     fixed_payment_lag |-> 0, floating_payment_lag |-> 2]

SwapModels ==
    { SwapBase,
      [SwapBase EXCEPT !.end_date = MkDate(2025, 4, 30)],
      [SwapBase EXCEPT !.floating_frequency = "3M"],
      [SwapBase EXCEPT !.fixed_business_convention = "ModifiedFollowing"],
      [SwapBase EXCEPT !.floating_payment_lag = 0],
      [SwapBase EXCEPT !.notional = RZero],
      [SwapBase EXCEPT !.end_date = MkDate(2025, 1, 31)] }

-----------------------------------------------------------------------------
(* The leg specification: an index and an evaluation date are there, legs  *)
(* are constructed, asked their schedule and built, swaps are constructed. *)

\* ql.Settings.instance().evaluationDate = ...; index = ql.Euribor3M(...),
\* with or without index.addFixing(2025-01-29, 0.025)
LegInit ==
    /\ IdleCurve
    /\ evalDate \in {MkDate(2025, 1, 1), MkDate(2025, 1, 31), MkDate(2025, 4, 1)}
    /\ euribor \in [fixings : {{}, {<<MkDate(2025, 1, 29), <<1, 40>>>>}},
                    curve : {NoHandle, CurveRef}]
    /\ coupon = NoCoupon
    /\ couponIn = NoCall
    /\ amountRes = NoAmount
    /\ IdleLeg
    /\ IdlePricer

\* FixedLeg(FixeLegModel(...))
NewFixedLeg ==
    /\ \E m \in FixedLegModels :
          /\ legIn' = [kind |-> "fixed", model |-> m]
          /\ leg' = IF FixeLegModelValid(m) THEN FixedLeg(m) ELSE [err |-> "ValidationError"]
    /\ schedRes' = NoSchedule
    /\ buildLog' = <<>>
    /\ UNCHANGED <<swap, swapIn, curveVars, couponVars, pricerVars>>

\* FloatingLeg(FloatingLegModel(...), index)
NewFloatingLeg ==
    /\ \E m \in FloatingLegModels :
          /\ legIn' = [kind |-> "floating", model |-> m]
          /\ leg' = IF FloatingLegModelValid(m) THEN FloatingLeg(m)
                     ELSE [err |-> "ValidationError"]
    /\ schedRes' = NoSchedule
    /\ buildLog' = <<>>
    /\ UNCHANGED <<swap, swapIn, curveVars, couponVars, pricerVars>>

\* leg.generate_schedule()
GenerateSchedule ==
    /\ leg.err = ""
    /\ schedRes' = generate_schedule(leg)
    /\ UNCHANGED <<leg, legIn, buildLog, swap, swapIn, curveVars, couponVars, pricerVars>>

\* leg.build_leg()
BuildLeg ==
    /\ leg.err = ""
    /\ Len(buildLog) < MaxBuilds
    /\ buildLog' = Append(buildLog, build_leg(leg, euribor, evalDate))
    /\ leg' = [leg EXCEPT !.coupons = buildLog'[Len(buildLog')].coupons]
    /\ UNCHANGED <<legIn, schedRes, swap, swapIn, curveVars, couponVars, pricerVars>>

\* from pricer.instruments.swap import SwapModel, Swap;
\* Swap(SwapModel(...), floating_index = index)
NewSwap ==
    /\ \E m \in SwapModels :
          /\ swapIn' = [kind |-> "swap", model |-> m]
          /\ swap' = IF swap_import # "" THEN [err |-> swap_import]
                      ELSE IF ~SwapModelValid(m) THEN [err |-> "ValidationError"]
                      ELSE Swap(m, euribor, evalDate)
    /\ UNCHANGED <<leg, legIn, schedRes, buildLog, curveVars, couponVars, pricerVars>>

LegNext == NewFixedLeg \/ NewFloatingLeg \/ GenerateSchedule \/ BuildLeg \/ NewSwap

SpecLeg == LegInit /\ [][LegNext]_vars


-----------------------------------------------------------------------------
(* Properties of the leg specification.                                    *)

Increasing(dates) == \A i \in 1..(Len(dates) - 1) : dates[i] < dates[i + 1]

\* the dates run from the adjusted start date to the adjusted end date
FromStartToEnd(l, dates) ==
    /\ dates[1] = Adjust(l.calendar, l.start_date, l.business_convention)
    /\ dates[Len(dates)] = Adjust(l.calendar, l.end_date, l.business_convention)
    /\ Increasing(dates)

\* C6: for every leg with end_date > start_date, generate_schedule returns
\* a sequence whose first element is the adjusted start_date, whose last
\* element is the adjusted end_date, and whose dates are strictly
\* increasing.
C6_ScheduleEnds ==
    (leg.err = "" /\ leg.end_date > leg.start_date /\ schedRes # NoSchedule)
    => /\ schedRes.err = ""
       /\ FromStartToEnd(leg, schedRes.dates)

\* what generate_schedule returns, when it returns, has these three
\* properties
C6_ScheduleEndsWhenReturned ==
    schedRes.err = "" => FromStartToEnd(leg, schedRes.dates)

\* generate_schedule was called on a FixedLeg with end_date > start_date
\* and raised
C6_Witness ==
    /\ leg.err = ""
    /\ leg.kind = "fixed"
    /\ leg.end_date > leg.start_date
    /\ schedRes.err = "TypeError"

\* one coupon per pair of adjacent dates, coupon i over [dates[i], dates[i+1]]
PeriodCoupons(cs, dates) ==
    /\ Len(cs) = Len(dates) - 1
    /\ \A i \in 1..Len(cs) :
          cs[i].start_date = dates[i] /\ cs[i].end_date = dates[i + 1]

Contiguous(cs) == \A i \in 1..(Len(cs) - 1) : cs[i].end_date = cs[i + 1].start_date

OnePerPeriod(built, schedule) ==
    /\ built.err = ""
    /\ schedule.err = ""
    /\ PeriodCoupons(built.ret, schedule.dates)
    /\ Contiguous(built.ret)

\* C7: build_leg, for a FixedLeg and for a FloatingLeg alike, produces
\* exactly one coupon per adjacent pair of schedule dates, coupon i accruing
\* from schedule[i] to schedule[i+1], so that the accrual periods are
\* contiguous.  Stated for the first build_leg call on a leg: of a FixedLeg,
\* and of a FloatingLeg whose coupons the index could all be resolved for.
C7_OneCouponPerPeriod ==
    (Len(buildLog) >= 1 /\ (leg.kind = "fixed" \/ buildLog[1].err = ""))
    => OnePerPeriod(buildLog[1], generate_schedule(leg))

\* the first build_leg call on a FloatingLeg, when it returns, returns one
\* coupon per period
C7_FloatingOneCouponPerPeriod ==
    (Len(buildLog) >= 1 /\ leg.kind = "floating" /\ buildLog[1].err = "")
    => OnePerPeriod(buildLog[1], generate_schedule(leg))

\* build_leg was called on a FixedLeg and raised, returning no coupon
C7_Witness ==
    /\ Len(buildLog) >= 1
    /\ leg.kind = "fixed"
    /\ buildLog[1].err = "TypeError"
    /\ leg.coupons = <<>>

SamePeriods(a, b) ==
    /\ Len(a) = Len(b)
    /\ \A i \in 1..Len(a) :
          a[i].start_date = b[i].start_date /\ a[i].end_date = b[i].end_date

\* C8: after any number n >= 1 of consecutive build_leg calls on the same
\* leg, the leg's coupon collection holds the same coupons (same count,
\* same periods) as after a single call.
C8_BuildIdempotent ==
    \A n \in 2..Len(buildLog) :
        (buildLog[1].err = "" /\ buildLog[n].err = "")
        => SamePeriods(buildLog[n].coupons, buildLog[1].coupons)

\* two build_leg calls on a FloatingLeg returned, and the collection after
\* the second holds every coupon of the first twice
C8_Witness ==
    /\ Len(buildLog) = 2
    /\ leg.kind = "floating"
    /\ buildLog[1].err = ""
    /\ buildLog[2].err = ""
    /\ Len(buildLog[1].coupons) = 5
    /\ leg.coupons = buildLog[1].coupons \o buildLog[1].coupons

CarriesLegParameters(l, c) ==
    /\ c.kind = l.kind
    /\ c.notional = l.notional
    /\ IF l.kind = "fixed" THEN c.fixed_rate = l.fixed_rate
       ELSE c.spread = l.spread /\ c.fixing_lag = l.fixing_lag

AllCarryLegParameters(l, cs) == \A i \in 1..Len(cs) : CarriesLegParameters(l, cs[i])

\* C9: build_leg produces the coupons of the leg, and every coupon it
\* produces carries the leg's own parameters: the leg's notional, the
\* leg's fixed_rate (FixedLeg) or the leg's spread and fixing lag
\* (FloatingLeg), all coupons of one leg being of the leg's variant.
\* Stated for the first build_leg call on a leg: of a FixedLeg, and of a
\* FloatingLeg whose coupons the index could all be resolved for.
C9_CouponsCarryLegParameters ==
    (Len(buildLog) >= 1 /\ (leg.kind = "fixed" \/ buildLog[1].err = ""))
    => /\ buildLog[1].err = ""
       /\ Len(buildLog[1].ret) > 0
       /\ AllCarryLegParameters(leg, buildLog[1].ret)

\* no coupon that build_leg returned or left in the leg's collection
\* carries other parameters than the leg's
C9_NoCouponCarriesOtherParameters ==
    \A n \in 1..Len(buildLog) :
        /\ AllCarryLegParameters(leg, buildLog[n].ret)
        /\ AllCarryLegParameters(leg, buildLog[n].coupons)

\* build_leg was called on the FixedLeg of a model with notional 1000 and
\* fixed rate 5% and produced no coupon
C9_Witness ==
    /\ Len(buildLog) >= 1
    /\ leg.kind = "fixed"
    /\ leg.notional = RInt(1000)
    /\ leg.fixed_rate = <<1, 20>>
    /\ buildLog[1].err # ""
    /\ buildLog[1].ret = <<>>

\* the Swap constructor was called with a model its validators accept,
\* the same frequency on both legs, and an index that has a curve
SwapCalled ==
    /\ swapIn.kind = "swap"
    /\ SwapModelValid(swapIn.model)
    /\ swapIn.model.fixed_frequency = swapIn.model.floating_frequency
    /\ euribor.curve # NoHandle

\* C10: after a Swap is constructed with the same payment frequency and
\* consistent conventions on both legs, the fixed leg's coupon collection
\* and the floating leg's coupon collection have the same, non-zero number
\* of coupons.
C10_SwapLegsSameCount ==
    SwapCalled
    => /\ swap.err = ""
       /\ Len(swap.fixed_leg.coupons) = Len(swap.floating_leg.coupons)
       /\ Len(swap.fixed_leg.coupons) > 0

\* the construction of the swap of tests/test_swap.py raised
C10_Witness ==
    /\ SwapCalled
    /\ swapIn.model = SwapBase
    /\ swap.err = "ImportError"

\* the Swap constructor was called with a model its validators accept and
\* an index that has a curve
SwapValidCall ==
    /\ swapIn.kind = "swap"
    /\ SwapModelValid(swapIn.model)
    /\ euribor.curve # NoHandle

\* value_date = calendar.advance(trade_date, spot_lag business days)
ValueDateOf(m) == AdvanceDays(m.calendar, m.trade_date, m.spot_lag, "Following")

\* both legs span [value_date, end_date] with the notional of the swap
LegsShareWindow(s) ==
    /\ s.value_date = ValueDateOf(s.model)
    /\ s.fixed_leg.start_date = s.value_date
    /\ s.floating_leg.start_date = s.value_date
    /\ s.fixed_leg.end_date = s.model.end_date
    /\ s.floating_leg.end_date = s.model.end_date
    /\ s.fixed_leg.notional = s.model.notional
    /\ s.floating_leg.notional = s.model.notional

\* C11: the Swap constructor builds a swap whose fixed leg and floating leg
\* have the same start date, equal to value_date = calendar.advance(
\* trade_date, spot_lag business days), the same end date, equal to the
\* swap's end_date, and the same notional.
C11_SwapLegsShareWindow ==
    SwapValidCall => (swap.err = "" /\ LegsShareWindow(swap))

\* the data Swap.__init__ prepares for the two leg models share the start
\* date, the end date and the notional
C11_LegDataShareWindow ==
    swapIn.kind = "swap"
    => /\ fixed_data(swapIn.model, ValueDateOf(swapIn.model)).start_date
            = floating_data(swapIn.model, ValueDateOf(swapIn.model)).start_date
       /\ fixed_data(swapIn.model, 0).end_date = swapIn.model.end_date
       /\ floating_data(swapIn.model, 0).end_date = swapIn.model.end_date
       /\ fixed_data(swapIn.model, 0).notional = floating_data(swapIn.model, 0).notional

\* the construction of a swap from 2025-01-31 to 2025-04-30 raised and left
\* no swap and no leg
C11_Witness ==
    /\ SwapValidCall
    /\ swapIn.model.end_date = MkDate(2025, 4, 30)
    /\ ValueDateOf(swapIn.model) = MkDate(2025, 2, 4)
    /\ swap.err = "ImportError"

\* C12: Swap construction fails with a date-range error, the one that
\* SwapModel.check_dates raises, whenever end_date <= trade_date, and no
\* Swap object exists with end_date <= trade_date.
C12_SwapDateRangeError ==
    (swapIn.kind = "swap" /\ swapIn.model.end_date <= swapIn.model.trade_date)
    => swap.err = "ValidationError"

\* whatever the error, no Swap object exists with end_date <= trade_date
C12_NoSwapOutsideDateRange ==
    (swapIn.kind = "swap" /\ swapIn.model.end_date <= swapIn.model.trade_date)
    => swap.err # ""

\* a swap ending on its trade date was asked for, and the error raised is
\* the one of the import of swap.py
C12_Witness ==
    /\ swapIn.kind = "swap"
    /\ swapIn.model.end_date = swapIn.model.trade_date
    /\ ~SwapModelValid(swapIn.model)
    /\ swap.err = "ImportError"


\* a leg constructor was called with a model whose notional is <= 0
NonPositiveNotionalCall == legIn # NoCall /\ RLe(legIn.model.notional, RZero)

\* C18: validation is eager for legs: every leg model, fixed or floating,
\* with notional <= 0, notional = 0 included, is rejected when the model is
\* constructed, so no FixedLeg or FloatingLeg exists with a non-positive
\* notional and build_leg never fails because of the notional.
C18_LegNotionalEager ==
    NonPositiveNotionalCall
    => /\ leg = [err |-> "ValidationError"]
       /\ buildLog = <<>>

\* a FixeLegModel with notional <= 0 and a FloatingLegModel with
\* notional < 0 are rejected when the model is constructed
C18_RejectedAtConstruction ==
    (NonPositiveNotionalCall
        /\ (legIn.kind = "fixed" \/ RLt(legIn.model.notional, RZero)))
    => leg = [err |-> "ValidationError"]

\* a FloatingLeg with notional 0 was constructed, and its build_leg failed
\* on the notional check of the first coupon model
C18_Witness ==
    /\ legIn.kind = "floating"
    /\ legIn.model.notional = RZero
    /\ leg.err = ""
    /\ leg.coupons = <<>>
    /\ Len(buildLog) >= 1
    /\ buildLog[1].err = "ValidationError"

\* the payment date of coupon c of leg l is its own accrual end advanced
\* by the leg's payment lag
PaidAfterOwnEnd(l, c) ==
    c.payment_date = AdvanceDays(l.calendar, c.end_date, l.payment_lag, l.business_convention)

AllPaidAfterOwnEnd(l, cs) == \A i \in 1..Len(cs) : PaidAfterOwnEnd(l, cs[i])

\* C23: build_leg of a FixedLeg or a FloatingLeg produces the coupons of
\* the leg, and for every coupon i it produces payment_date =
\* calendar.advance(period_end_i, +payment_lag business days,
\* business_convention), period_end_i being that coupon's own accrual end
\* date, not a later schedule date.  Stated for the first build_leg call on
\* a leg: of a FixedLeg, and of a FloatingLeg whose coupons the index could
\* all be resolved for.
C23_PaymentDateFromOwnPeriodEnd ==
    (Len(buildLog) >= 1 /\ (leg.kind = "fixed" \/ buildLog[1].err = ""))
    => /\ buildLog[1].err = ""
       /\ Len(buildLog[1].ret) > 0
       /\ AllPaidAfterOwnEnd(leg, buildLog[1].ret)

\* every coupon a build_leg call returned or left in the leg's collection
\* is paid payment_lag business days after its own accrual end
C23_NoCouponPaidOtherwise ==
    \A n \in 1..Len(buildLog) :
        /\ AllPaidAfterOwnEnd(leg, buildLog[n].ret)
        /\ AllPaidAfterOwnEnd(leg, buildLog[n].coupons)

\* build_leg on a FixedLeg with payment lag 2 raised at the schedule and
\* produced no coupon
C23_Witness ==
    /\ Len(buildLog) >= 1
    /\ leg.kind = "fixed"
    /\ leg.payment_lag = 2
    /\ buildLog[1].err = "TypeError"
    /\ buildLog[1].ret = <<>>

\* build_leg on a FloatingLeg with payment lag 2 returned five coupons,
\* each paid two business days after its own accrual end and before the
\* next schedule date
C23_FloatingPaid ==
    /\ Len(buildLog) >= 1
    /\ leg.kind = "floating"
    /\ leg.payment_lag = 2
    /\ buildLog[1].err = ""
    /\ Len(buildLog[1].ret) = 5
    /\ AllPaidAfterOwnEnd(leg, buildLog[1].ret)
    /\ buildLog[1].ret[1].payment_date > buildLog[1].ret[1].end_date
    /\ buildLog[1].ret[1].payment_date < buildLog[1].ret[2].end_date

\* the number of months from the month of start_date to the month of
\* end_date
DurationMonths(m) ==
    (YearOf(m.end_date) - YearOf(m.start_date)) * 12 + MonthOf(m.end_date) - MonthOf(m.start_date)

\* a leg constructor was called with a model whose payment period is
\* longer than the leg
PeriodLongerThanLeg ==
    /\ legIn # NoCall
    /\ legIn.model.payment_frequency \in DOMAIN PAYMENT_FREQUENCY_MAP
    /\ PAYMENT_FREQUENCY_MAP[legIn.model.payment_frequency] > DurationMonths(legIn.model)

\* C24: before schedule generation, a leg whose payment period (in months)
\* is longer than the leg's total duration from start_date to end_date (in
\* months) is rejected with an error; no leg with such a frequency is built
\* into coupons.
C24_LongPeriodRejected ==
    PeriodLongerThanLeg
    => /\ leg.err # ""
       /\ schedRes = NoSchedule
       /\ buildLog = <<>>

\* a leg model with a period longer than the leg is rejected only for what
\* the validators check: the notional, the rate, the names and the order
\* of the two dates
C24_RejectedOnlyForOtherFields ==
    (PeriodLongerThanLeg /\ leg.err # "")
    => ~(IF legIn.kind = "fixed" THEN FixeLegModelValid(legIn.model)
         ELSE FloatingLegModelValid(legIn.model))

\* a FloatingLeg of one month with a three-month period was constructed,
\* and build_leg returned one coupon for it
C24_Witness ==
    /\ PeriodLongerThanLeg
    /\ legIn.kind = "floating"
    /\ legIn.model.payment_frequency = "3M"
    /\ DurationMonths(legIn.model) = 1
    /\ leg.err = ""
    /\ Len(buildLog) >= 1
    /\ buildLog[1].err = ""
    /\ Len(leg.coupons) = 1

\* the leg's coupon collection before build_leg call n
CouponsBefore(n) == IF n = 1 THEN <<>> ELSE buildLog[n - 1].coupons

\* C28: if build_leg fails while creating the coupon of some period, the
\* leg exposes no partial result: its coupon collection is the same as
\* before the failed call and contains none of the coupons created for the
\* earlier periods of that call.
C28_NoPartialResult ==
    \A n \in 1..Len(buildLog) :
        buildLog[n].err # "" => buildLog[n].coupons = CouponsBefore(n)

\* a call that fails at the schedule or on its first period leaves the
\* collection as it was
C28_UnchangedWhenFirstPeriodFails ==
    \A n \in 1..Len(buildLog) :
        (buildLog[n].err # ""
            /\ (\/ leg.kind = "fixed"
                \/ generate_schedule(leg).err # ""
                \/ FloatingLegCoupon(leg, euribor, generate_schedule(leg).dates[1],
                                     generate_schedule(leg).dates[2], evalDate).err # ""))
        => buildLog[n].coupons = CouponsBefore(n)

\* the first build_leg call on a FloatingLeg raised on its second period
\* and left the coupon of the first period in the leg's collection
C28_Witness ==
    /\ Len(buildLog) >= 1
    /\ leg.kind = "floating"
    /\ buildLog[1].err = "RuntimeError"
    /\ Len(buildLog[1].coupons) = 1
    /\ buildLog[1].coupons[1].start_date = leg.start_date
    /\ buildLog[1].coupons[1].rate_source = "fixing"

\* C30: after build_leg() returns on a FixedLeg or a FloatingLeg, the
\* leg's own coupon collection holds exactly the sequence of coupons that
\* the call returned, in the same order, so that code reading leg.coupons
\* after build_leg sees the built coupons.  Stated for the first build_leg
\* call on a leg: of a FixedLeg, and of a FloatingLeg whose coupons the
\* index could all be resolved for.
C30_CollectionIsWhatWasReturned ==
    (Len(buildLog) >= 1 /\ (leg.kind = "fixed" \/ buildLog[1].err = ""))
    => /\ buildLog[1].err = ""
       /\ Len(buildLog[1].ret) > 0
       /\ buildLog[1].coupons = buildLog[1].ret

\* whenever a build_leg call returns, the collection it leaves is the list
\* it returned
C30_ReturnedListIsCollection ==
    \A n \in 1..Len(buildLog) :
        buildLog[n].err = "" => buildLog[n].coupons = buildLog[n].ret

\* build_leg was called on a FixedLeg and raised; the leg's collection is
\* the empty list of the constructor
C30_Witness ==
    /\ Len(buildLog) = 2
    /\ leg.kind = "fixed"
    /\ buildLog[1].err = "TypeError"
    /\ buildLog[2].err = "TypeError"
    /\ buildLog[2].coupons = <<>>
    /\ leg.coupons = <<>>

-----------------------------------------------------------------------------
(* pricer/pricers/base_pricer.py, discounting.py                           *)

\* from pricer.pricers.base_pricer import BasePricer (discounting.py line
\* 1), which runs from pricer.instruments.swap import Swap (base_pricer.py
\* line 7)
pricer_import == swap_import

\* type(instrument), read off the attributes of the object
TypeOf(x) ==
    IF "payment_date" \in DOMAIN x
    THEN (IF x.kind = "fixed" THEN "FixedCoupon" ELSE "FloatingCoupon")
    ELSE IF "coupons" \in DOMAIN x
    THEN (IF x.kind = "fixed" THEN "FixedLeg" ELSE "FloatingLeg")
    ELSE IF "fixed_leg" \in DOMAIN x THEN "Swap"
    ELSE IF "interpolator" \in DOMAIN x THEN "DiscountCurve"
    ELSE "float"

\* utils/dates.py to_pydate of a ql.Date: the date of the same year, month
\* and day
to_pydate(d) == MkDate(YearOf(d), MonthOf(d), DayOf(d))

\* amount * df, df the number discount_factor returned
NumScale(a, df) ==
    CASE df.k = "rat" -> NumRat(RMul(a, df.v))
      [] df.k = "nan" -> NaN
      [] df.k = "pow2" -> [k |-> "scaled", a |-> a, v |-> df.v]

\* return amount * df, or the exception of curve.discount_factor
PriceAt(a, df) ==
    IF df.err # "" THEN [err |-> df.err] ELSE [err |-> "", val |-> NumScale(a, df.val)]

\* DiscountingPricer.price
DiscountingPricer_price(instrument, c) ==
    IF TypeOf(instrument) \in {"FixedCoupon", "FloatingCoupon"}
    THEN PriceAt(amount(instrument), discount_factor(c, to_pydate(instrument.payment_date)))
    ELSE [err |-> "ValueError", why |-> "unsupported"]

\* DiscountingPricer().price(instrument, curve) in a program that imports
\* discounting.py and constructs the instrument first: the error of the
\* import, or of the construction of the instrument, or the outcome of price
PriceCall(instrument, c) ==
    IF pricer_import # "" THEN [err |-> pricer_import]
    ELSE IF instrument.err # "" THEN [err |-> instrument.err]
    ELSE DiscountingPricer_price(instrument, c)

-----------------------------------------------------------------------------
(* Inputs of the pricer specification: a curve, a coupon and a leg that    *)
(* their constructors return, and a swap construction that was attempted.  *)

\* 1.0 on the valuation date 2025-01-31, 0.5 on the last pillar
PricerPillarLists ==
    { <<<<DateKey(ValueDate), <<1, 1>>>>, <<DateKey(MkDate(2025, 4, 30)), <<1, 2>>>>,
        <<DateKey(MkDate(2025, 5, 2)), <<1, 4>>>>>>,
      <<<<DateKey(ValueDate), <<1, 1>>>>, <<DateKey(MkDate(2025, 4, 30)), <<1, 2>>>>>> }

PricerCurveModels ==
    { CurveModel(p, "linear", io, ex, "Actual360", "TARGET") :
        p \in PricerPillarLists, io \in {"discount", "log_discount"}, ex \in BOOLEAN }

PricerIndex == [fixings |-> {}, curve |-> CurveRef]

\* the constructor calls FixedCoupon(m) and FloatingCoupon(m, index) and
\* the coupons they return
PricerCoupons ==
    { [in |-> [kind |-> "fixed", model |-> m], obj |-> FixedCoupon(m)] :
        m \in FixedCouponModels }
    \cup { [in |-> [kind |-> "floating", model |-> m, index |-> PricerIndex,
                    eval_date |-> CurveRef],
            obj |-> FloatingCoupon(m, PricerIndex, CurveRef)] :
             m \in FloatingCouponModels }

\* a leg after its constructor and one build_leg call
PricerLegOf(k, m, l) ==
    [in |-> [kind |-> k, model |-> m], log |-> <<build_leg(l, PricerIndex, CurveRef)>>,
     obj |-> [l EXCEPT !.coupons = build_leg(l, PricerIndex, CurveRef).coupons]]

PricerLegs ==
    { PricerLegOf("fixed", FixedLegBase, FixedLeg(FixedLegBase)),
      PricerLegOf("floating", FloatingLegBase, FloatingLeg(FloatingLegBase)),
      PricerLegOf("floating", [FloatingLegBase EXCEPT !.payment_frequency = "3M"],
                  FloatingLeg([FloatingLegBase EXCEPT !.payment_frequency = "3M"])) }

-----------------------------------------------------------------------------
(* The pricer specification: a curve, a coupon and a leg are there, and    *)
(* DiscountingPricer().price is called on one of them or on something else. *)

PricerInit ==
    /\ \E m \in PricerCurveModels :
          /\ curveIn = m
          /\ curve = from_model(m)
    /\ curveErr = ""
    /\ query = NoQuery
    /\ prevQuery = NoQuery
    /\ evalDate = CurveRef
    /\ euribor = PricerIndex
    /\ \E c \in PricerCoupons :
          /\ couponIn = c.in
          /\ coupon = c.obj
    /\ amountRes = NoAmount
    /\ \E l \in PricerLegs :
          /\ legIn = l.in
          /\ leg = l.obj
          /\ buildLog = l.log
    /\ schedRes = NoSchedule
    /\ \E m \in {SwapBase, [SwapBase EXCEPT !.end_date = MkDate(2025, 4, 30)]} :
          /\ swapIn = [kind |-> "swap", model |-> m]
          /\ swap = IF swap_import # "" THEN [err |-> swap_import]
                    ELSE Swap(m, PricerIndex, CurveRef)
    /\ IdlePricer

\* the object each name of the calling program is bound to
Instruments ==
    [coupon |-> coupon, leg |-> leg, swap |-> swap, curve |-> curve,
     number |-> [err |-> "", value |-> ROne]]

\* DiscountingPricer().price(instrument, curve)
Price ==
    /\ \E which \in DOMAIN Instruments :
          /\ priceIn' = [kind |-> which]
          /\ priceRes' = PriceCall(Instruments[which], curve)
    /\ UNCHANGED <<curveVars, couponVars, legVars>>

\* the dates the calling program asks the curve about between price calls:
\* the accrual end and the payment date of the coupons
PricerDates == {MkDate(2025, 4, 30), MkDate(2025, 5, 2)}

\* curve.discount_factor(target_date)
PricerQuery == DiscountFactorOn(PricerDates)

PricerNext == Price \/ PricerQuery

SpecPricer == PricerInit /\ [][PricerNext]_vars


-----------------------------------------------------------------------------
(* Properties of the pricer specification.                                 *)

\* curve.discount_factor at the coupon's payment date
PaymentDateFactor(c, cp) == discount_factor(c, cp.payment_date)

\* r is amount() times the discount factor at the payment date
IsDiscountedAmount(r, c, cp) ==
    /\ r.err = ""
    /\ r.val = NumScale(amount(cp), PaymentDateFactor(c, cp).val)

\* C13: for a FixedCoupon or FloatingCoupon and a curve,
\* DiscountingPricer.price returns coupon.amount() times
\* curve.discount_factor(coupon.payment_date): the discount factor is taken
\* at the payment date, not at the accrual end date.
C13_PriceAtPaymentDate ==
    (priceIn.kind = "coupon" /\ PaymentDateFactor(curve, coupon).err = "")
    => IsDiscountedAmount(priceRes, curve, coupon)

\* the body of price, applied to the coupon and the curve of the state,
\* returns the amount discounted from the payment date, and raises what
\* discount_factor raises
C13_PriceBodyAtPaymentDate ==
    IF PaymentDateFactor(curve, coupon).err = ""
    THEN IsDiscountedAmount(DiscountingPricer_price(coupon, curve), curve, coupon)
    ELSE DiscountingPricer_price(coupon, curve).err = "ValueError"

\* price was asked for a coupon paid on 2025-05-02, after its accrual end,
\* with a curve that covers that date, and the call raised
C13_Witness ==
    /\ priceIn.kind = "coupon"
    /\ coupon.payment_date = MkDate(2025, 5, 2)
    /\ coupon.end_date = MkDate(2025, 4, 30)
    /\ PaymentDateFactor(curve, coupon).err = ""
    /\ DiscountingPricer_price(coupon, curve).val
         # NumScale(amount(coupon), discount_factor(curve, coupon.end_date).val)
    /\ priceRes.err = "ImportError"

\* the leg of the state was built by a build_leg call that returned
LegIsBuilt == leg.err = "" /\ Len(buildLog) >= 1 /\ buildLog[1].err = ""

\* the curve answers at every payment date, whatever the date
CurveCoversAll == curve.allow_extrapolation

\* the sum of the rational coupon prices of a list of coupons
SumOfPrices(cs, c) ==
    RSum([i \in 1..Len(cs) |-> DiscountingPricer_price(cs[i], c).val.v], Len(cs))

\* C14: for a built leg and a curve, DiscountingPricer.price returns the
\* sum of price(coupon, curve) over the leg's coupons.
C14_LegPriceIsSum ==
    (priceIn.kind = "leg" /\ LegIsBuilt /\ CurveCoversAll
        /\ curve.interpolation_on = "discount")
    => /\ priceRes.err = ""
       /\ priceRes.val = NumRat(SumOfPrices(leg.coupons, curve))

\* the body of price, applied to a leg, raises the error of an unsupported
\* instrument
C14_PriceBodyRefusesLegs ==
    leg.err = ""
    => DiscountingPricer_price(leg, curve) = [err |-> "ValueError", why |-> "unsupported"]

\* price was asked for a built FloatingLeg of five coupons, which the body
\* of price refuses, and the call raised
C14_Witness ==
    /\ priceIn.kind = "leg"
    /\ LegIsBuilt
    /\ CurveCoversAll
    /\ TypeOf(leg) = "FloatingLeg"
    /\ Len(leg.coupons) = 5
    /\ priceRes.err = "ImportError"

\* C15: for a Swap and a curve, DiscountingPricer.price returns
\* price(fixed_leg, curve) - price(floating_leg, curve).
C15_SwapPriceIsDifference ==
    (priceIn.kind = "swap" /\ SwapModelValid(swapIn.model) /\ CurveCoversAll
        /\ curve.interpolation_on = "discount")
    => /\ swap.err = ""
       /\ priceRes.err = ""
       /\ priceRes.val = NumRat(RSub(SumOfPrices(swap.fixed_leg.coupons, curve),
                                     SumOfPrices(swap.floating_leg.coupons, curve)))

\* price was asked for the swap of tests/test_swap.py, which could not be
\* constructed, and the call raised
C15_Witness ==
    /\ priceIn.kind = "swap"
    /\ swapIn.model = SwapBase
    /\ swap.err = "ImportError"
    /\ priceRes.err = "ImportError"

\* the error of an unsupported instrument
Unsupported(r) == r.err = "ValueError" /\ "why" \in DOMAIN r

\* C16: DiscountingPricer.price fails with an unsupported-instrument error
\* for every input that is not a coupon, a leg or a swap, and it fails for
\* no input that is one of those: here for no coupon and no built leg, with
\* a curve that answers at every date.
C16_UnsupportedOnlyForOthers ==
    /\ priceIn.kind \in {"curve", "number"} => Unsupported(priceRes)
    /\ (priceIn.kind = "coupon" /\ CurveCoversAll) => priceRes.err = ""
    /\ (priceIn.kind = "leg" /\ LegIsBuilt /\ CurveCoversAll) => priceRes.err = ""

\* the body of price raises the error of an unsupported instrument for a
\* curve and for a number, and not for a coupon
C16_PriceBodyRefusesOthers ==
    /\ Unsupported(DiscountingPricer_price(Instruments.curve, curve))
    /\ Unsupported(DiscountingPricer_price(Instruments.number, curve))
    /\ ~Unsupported(DiscountingPricer_price(coupon, curve))

\* on failure price returns no value
C16_NoValueOnFailure ==
    (priceRes # NoPrice /\ priceRes.err # "") => "val" \notin DOMAIN priceRes

\* price was asked for a number and raised, but not the error of an
\* unsupported instrument
C16_Witness ==
    /\ priceIn.kind = "number"
    /\ priceRes.err # ""
    /\ ~Unsupported(priceRes)

\* the answers of the last two discount_factor calls are what the curve of
\* the state answers for the same dates
AnswersOfCurve ==
    /\ Called(query) => query.res = discount_factor(curve, query.date)
    /\ Called(prevQuery) => prevQuery.res = discount_factor(curve, prevQuery.date)
    /\ (Called(query) /\ Called(prevQuery) /\ query.date = prevQuery.date)
         => query.res = prevQuery.res

\* a step leaves the curve and the coupon as they are
CurveAndCouponKept == curve' = curve /\ coupon' = coupon

\* C26: a DiscountCurve is immutable after construction: no sequence of
\* discount_factor queries and DiscountingPricer.price calls changes the
\* curve's valuation date, pillar times, values or interpolation settings,
\* nor the priced coupon's fields, so discount_factor(d) returns the same
\* result for the same d at any point of any such sequence.
C26_CurveImmutable == []AnswersOfCurve /\ [][CurveAndCouponKept]_vars

\* the curve was asked twice for the coupon's payment date, price was
\* called for the coupon, and both answers are the same number below 1
C26_Witness ==
    /\ Called(query)
    /\ Called(prevQuery)
    /\ priceIn.kind = "coupon"
    /\ query.date = coupon.payment_date
    /\ prevQuery.date = query.date
    /\ query.res.err = ""
    /\ query.res = prevQuery.res
    /\ query.res.val # NumRat(ROne)

=============================================================================
